---- MODULE Spec2Model ----
(***************************************************************************)
(* A model of the Base Kanban plugin: the markdown <-> board converter     *)
(* (parser.ts), the title edit of the Kanban view and the settings that    *)
(* drive them.  Text is modelled character by character: a JavaScript      *)
(* string is a TLA+ string, read with Len, SubSeq and \o, and every        *)
(* regular expression of the source is an operator that matches the same   *)
(* language with the same leftmost / greedy / lazy choice.                 *)
(***************************************************************************)
EXTENDS Integers, Sequences, FiniteSets, TLC

(***************************************************************************)
(* JavaScript string primitives                                            *)
(***************************************************************************)
NL == "\n"

Ch(s, i) == SubSeq(s, i, i)

Digits == {"0", "1", "2", "3", "4", "5", "6", "7", "8", "9"}

LowerLetters == {"a", "b", "c", "d", "e", "f", "g", "h", "i", "j", "k", "l", "m",
                 "n", "o", "p", "q", "r", "s", "t", "u", "v", "w", "x", "y", "z"}

UpperLetters == {"A", "B", "C", "D", "E", "F", "G", "H", "I", "J", "K", "L", "M",
                 "N", "O", "P", "Q", "R", "S", "T", "U", "V", "W", "X", "Y", "Z"}

\* \s of a JavaScript regular expression, over the characters of the model
IsSpace(c) == c \in {" ", "\t", "\n", "\r"}

\* \w
IsWord(c) == c \in LowerLetters \cup UpperLetters \cup Digits \cup {"_"}

\* \d
IsDigit(c) == c \in Digits

\* [\w-]
IsIdChar(c) == IsWord(c) \/ c = "-"

\* [\w-/]
IsTagChar(c) == IsWord(c) \/ c = "-" \/ c = "/"

UpperAlphabet == "ABCDEFGHIJKLMNOPQRSTUVWXYZ"
LowerAlphabet == "abcdefghijklmnopqrstuvwxyz"

LowerCh(c) ==
    IF c \in UpperLetters
    THEN LET k == CHOOSE j \in 1..26 : Ch(UpperAlphabet, j) = c IN Ch(LowerAlphabet, k)
    ELSE c

RECURSIVE ToLowerFrom(_, _)
ToLowerFrom(s, i) ==
    IF i > Len(s) THEN "" ELSE LowerCh(Ch(s, i)) \o ToLowerFrom(s, i + 1)

\* String.prototype.toLowerCase
ToLower(s) == ToLowerFrom(s, 1)

\* s.startsWith(p, i - 1): p occurs in s at the (1-based) index i
StartsAt(s, p, i) ==
    /\ i >= 1
    /\ i + Len(p) - 1 <= Len(s)
    /\ SubSeq(s, i, i + Len(p) - 1) = p

StartsWith(s, p) == StartsAt(s, p, 1)

RECURSIVE IndexFrom(_, _, _)
\* s.indexOf(p, i - 1) + 1: the first index >= i where p occurs, 0 when none
IndexFrom(s, p, i) ==
    IF i + Len(p) - 1 > Len(s) THEN 0
    ELSE IF StartsAt(s, p, i) THEN i
    ELSE IndexFrom(s, p, i + 1)

IndexOf(s, p) == IndexFrom(s, p, 1)

\* String.prototype.includes
Includes(s, p) == IndexOf(s, p) > 0

\* s.slice(i - 1): the text from the (1-based) index i on
SliceFrom(s, i) == IF i > Len(s) THEN "" ELSE SubSeq(s, i, Len(s))

\* s.slice(0, i - 1): the text before the (1-based) index i
SliceTo(s, i) == IF i <= 1 THEN "" ELSE SubSeq(s, 1, i - 1)

\* s.replace(p, r) with a string pattern: the first occurrence only
ReplaceFirst(s, p, r) ==
    LET k == IndexOf(s, p)
    IN IF k = 0 THEN s ELSE SliceTo(s, k) \o r \o SliceFrom(s, k + Len(p))

RECURSIVE SkipSpaces(_, _)
\* the index after the run of \s that starts at i
SkipSpaces(s, i) ==
    IF i <= Len(s) /\ IsSpace(Ch(s, i)) THEN SkipSpaces(s, i + 1) ELSE i

RECURSIVE SkipSpacesBack(_, _)
\* the index before the run of \s that ends at i
SkipSpacesBack(s, i) ==
    IF i >= 1 /\ IsSpace(Ch(s, i)) THEN SkipSpacesBack(s, i - 1) ELSE i

\* String.prototype.trim
Trim(s) ==
    LET a == SkipSpaces(s, 1)
        b == SkipSpacesBack(s, Len(s))
    IN IF a > b THEN "" ELSE SubSeq(s, a, b)

RECURSIVE SplitFrom(_, _, _)
SplitFrom(s, sep, i) ==
    LET k == IndexFrom(s, sep, i)
    IN IF k = 0 THEN << SliceFrom(s, i) >>
       ELSE << SubSeq(s, i, k - 1) >> \o SplitFrom(s, sep, k + Len(sep))

\* s.split('\n')
SplitLines(s) == SplitFrom(s, NL, 1)

RECURSIVE JoinFrom(_, _, _)
JoinFrom(parts, sep, i) ==
    IF i > Len(parts) THEN ""
    ELSE IF i = Len(parts) THEN parts[i]
    ELSE parts[i] \o sep \o JoinFrom(parts, sep, i + 1)

\* parts.join(sep)
Join(parts, sep) == JoinFrom(parts, sep, 1)

RECURSIVE NatToStr(_)
\* String(n) of a non-negative integer
NatToStr(n) ==
    LET d == CHOOSE c \in Digits : \E k \in 0..9 : k = n % 10 /\ Ch("0123456789", k + 1) = c
    IN IF n < 10 THEN d ELSE NatToStr(n \div 10) \o d

DigitVal(c) == CHOOSE k \in 0..9 : Ch("0123456789", k + 1) = c

RECURSIVE DigitsEnd(_, _)
\* the index after the run of \d that starts at i
DigitsEnd(s, i) ==
    IF i <= Len(s) /\ IsDigit(Ch(s, i)) THEN DigitsEnd(s, i + 1) ELSE i

RECURSIVE StrToNat(_, _, _)
StrToNat(s, i, acc) ==
    IF i > Len(s) \/ ~IsDigit(Ch(s, i)) THEN acc
    ELSE StrToNat(s, i + 1, acc * 10 + DigitVal(Ch(s, i)))

(***************************************************************************)
(* Scalar extractors of a card line                                        *)
(***************************************************************************)
\* JavaScript null / undefined of a string-valued field.  No extractor ever
\* yields the empty string as a value (every capture group is a + group).
None == ""

RECURSIVE IdRunStart(_, _)
\* the first index of the run of [\w-] that ends at e (e + 1 when there is none)
IdRunStart(s, e) ==
    IF e >= 1 /\ IsIdChar(Ch(s, e)) THEN IdRunStart(s, e - 1) ELSE e + 1

\* line.match(/\s*\^([\w-]+)\s*$/) and line.replace of the same expression
extractId(line) ==
    LET e == SkipSpacesBack(line, Len(line))
        b == IdRunStart(line, e)
        found == b <= e /\ b >= 2 /\ Ch(line, b - 1) = "^"
        w == SkipSpacesBack(line, b - 2)
    IN IF found
       THEN [content |-> SliceTo(line, w + 1), id |-> SubSeq(line, b, e)]
       ELSE [content |-> line, id |-> None]

RECURSIVE WordEnd(_, _)
\* the index after the run of \w that starts at i
WordEnd(s, i) ==
    IF i <= Len(s) /\ IsWord(Ch(s, i)) THEN WordEnd(s, i + 1) ELSE i

\* /\[(\w+)::([^\]]+)\]/ tried at index p: the index of the closing bracket, 0 when
\* the expression does not match there
MetaMatchAt(text, p) ==
    IF p > Len(text) \/ Ch(text, p) # "[" THEN 0
    ELSE LET k == WordEnd(text, p + 1)
             r == IndexFrom(text, "]", k + 2)
         IN IF k > p + 1 /\ StartsAt(text, "::", k) /\ r >= k + 3 THEN r ELSE 0

RECURSIVE NextMeta(_, _)
\* metadataRegex.exec(text) with lastIndex = p - 1: the start of the next match, 0 when none
NextMeta(text, p) ==
    IF p > Len(text) THEN 0
    ELSE IF MetaMatchAt(text, p) > 0 THEN p
    ELSE NextMeta(text, p + 1)

\* parseInt(s, 10); NaN is reported by ok = FALSE
parseInt(s) ==
    LET a == SkipSpaces(s, 1)
        neg == a <= Len(s) /\ Ch(s, a) = "-"
        b == IF a <= Len(s) /\ Ch(s, a) \in {"-", "+"} THEN a + 1 ELSE a
        e == DigitsEnd(s, b)
        n == StrToNat(s, b, 0)
    IN [ok |-> e > b, val |-> IF neg THEN 0 - n ELSE n]

\* String(n) of an integer
IntToStr(n) == IF n < 0 THEN "-" \o NatToStr(0 - n) ELSE NatToStr(n)

\* BaseTaskMetadata: the entries of the object in insertion order.  A numeric value
\* (progress) has isNum = TRUE and its value in num; any other value is the string str.
MetaHas(md, key) == \E i \in 1..Len(md) : md[i].key = key

MetaIndex(md, key) == CHOOSE i \in 1..Len(md) : md[i].key = key

\* metadata[key] = value
MetaSet(md, entry) ==
    IF MetaHas(md, entry.key)
    THEN [md EXCEPT ![MetaIndex(md, entry.key)] = entry]
    ELSE Append(md, entry)

\* delete metadata[key]
MetaDelete(md, key) ==
    IF MetaHas(md, key)
    THEN LET k == MetaIndex(md, key)
         IN SubSeq(md, 1, k - 1) \o SubSeq(md, k + 1, Len(md))
    ELSE md

StrEntry(key, value) == [key |-> key, isNum |-> FALSE, str |-> value, num |-> 0]

NumEntry(key, n) == [key |-> key, isNum |-> TRUE, str |-> "", num |-> n]

\* the truthiness of metadata[key]
MetaTruthy(md, key) ==
    /\ MetaHas(md, key)
    /\ LET en == md[MetaIndex(md, key)]
       IN IF en.isNum THEN en.num # 0 ELSE en.str # ""

\* `${metadata[key]}`
MetaText(en) == IF en.isNum THEN IntToStr(en.num) ELSE en.str

\* rawValue.replace('%', '')
StripPercent(s) == ReplaceFirst(s, "%", "")

\* metadata[key] = value of the loop: progress is parseInt(rawValue.replace('%', '')) || 0
MetaEntry(key, rawValue, pi) ==
    IF key = "progress" THEN NumEntry(key, IF pi.ok THEN pi.val ELSE 0)
    ELSE StrEntry(key, rawValue)

\* the key and the trimmed value of a match that starts at p, its \w+ ending before k
\* and its closing bracket at r
MetaOf(text, p, k, r) ==
    [key |-> ToLower(SubSeq(text, p + 1, k - 1)), rawValue |-> Trim(SubSeq(text, k + 2, r - 1))]

MetaEntryOf(kv) == MetaEntry(kv.key, kv.rawValue, parseInt(StripPercent(kv.rawValue)))

RECURSIVE MetaLoop(_, _, _, _)
RECURSIVE MetaTake(_, _, _, _, _)
\* the body of the loop for the match at p that closes at r
MetaTake(text, p, r, cleanText, md) ==
    MetaLoop(text, r + 1,
             Trim(ReplaceFirst(cleanText, SubSeq(text, p, r), "")),
             MetaSet(md, MetaEntryOf(MetaOf(text, p, WordEnd(text, p + 1), r))))

\* the loop at the match that starts at p (0: no further match)
MetaStep(text, p, cleanText, md) ==
    IF p = 0 THEN [cleanText |-> cleanText, metadata |-> md]
    ELSE MetaTake(text, p, MetaMatchAt(text, p), cleanText, md)

\* while ((match = metadataRegex.exec(text)) !== null) { ... }
MetaLoop(text, from, cleanText, md) == MetaStep(text, NextMeta(text, from), cleanText, md)

RECURSIVE LegacyProgressAt(_, _)
\* cleanText.match(/progress::(\d+)%?/i): the start of the leftmost match, 0 when none
LegacyProgressAt(s, p) ==
    LET k == IndexFrom(ToLower(s), "progress::", p)
    IN IF k = 0 THEN 0
       ELSE IF DigitsEnd(s, k + 10) > k + 10 THEN k
       ELSE LegacyProgressAt(s, k + 1)

RECURSIVE NonSpaceBracketEnd(_, _)
\* the index after the run of [^\s\]] that starts at i
NonSpaceBracketEnd(s, i) ==
    IF i <= Len(s) /\ ~IsSpace(Ch(s, i)) /\ Ch(s, i) # "]"
    THEN NonSpaceBracketEnd(s, i + 1) ELSE i

RECURSIVE LegacyProjectAt(_, _)
\* cleanText.match(/project::([^\s\]]+)/i): the start of the leftmost match, 0 when none
LegacyProjectAt(s, p) ==
    LET k == IndexFrom(ToLower(s), "project::", p)
    IN IF k = 0 THEN 0
       ELSE IF NonSpaceBracketEnd(s, k + 9) > k + 9 THEN k
       ELSE LegacyProjectAt(s, k + 1)

\* the index after the match of /progress::(\d+)%?/i that starts at pk
LegacyProgressEnd(s, pe) == IF pe <= Len(s) /\ Ch(s, pe) = "%" THEN pe + 1 ELSE pe

\* the legacy progress step for a match [pk, pend)
TakeLegacyProgress(br, pk, pend) ==
    [cleanText |-> Trim(ReplaceFirst(br.cleanText, SubSeq(br.cleanText, pk, pend - 1), "")),
     metadata |-> MetaSet(br.metadata, NumEntry("progress", StrToNat(br.cleanText, pk + 10, 0)))]

LegacyProgressStep(br, pk) ==
    IF pk > 0 /\ ~MetaHas(br.metadata, "progress")
    THEN TakeLegacyProgress(br, pk, LegacyProgressEnd(br.cleanText, DigitsEnd(br.cleanText, pk + 10)))
    ELSE br

\* if (progressMatch && metadata.progress === undefined) { ... }
LegacyProgress(br) == LegacyProgressStep(br, LegacyProgressAt(br.cleanText, 1))

\* the legacy project step for a match [jk, je)
TakeLegacyProject(br, jk, je) ==
    [cleanText |-> Trim(ReplaceFirst(br.cleanText, SubSeq(br.cleanText, jk, je - 1), "")),
     metadata |-> MetaSet(br.metadata, StrEntry("project", SubSeq(br.cleanText, jk + 9, je - 1)))]

LegacyProjectStep(br, jk) ==
    IF jk > 0 /\ ~MetaTruthy(br.metadata, "project")
    THEN TakeLegacyProject(br, jk, NonSpaceBracketEnd(br.cleanText, jk + 9))
    ELSE br

\* if (projectMatch && !metadata.project) { ... }
LegacyProject(br) == LegacyProjectStep(br, LegacyProjectAt(br.cleanText, 1))

\* parseInlineMetadata(text)
parseInlineMetadata(text) == LegacyProject(LegacyProgress(MetaLoop(text, 1, text, << >>)))

RECURSIVE TagEnd(_, _)
\* the index after the run of [\w-/] that starts at i
TagEnd(s, i) ==
    IF i <= Len(s) /\ IsTagChar(Ch(s, i)) THEN TagEnd(s, i + 1) ELSE i

RECURSIVE TagsFrom(_, _)
\* text.match(/#[\w-/]+/g) mapped by tag => tag.substring(1)
TagsFrom(text, i) ==
    IF i > Len(text) THEN << >>
    ELSE IF Ch(text, i) = "#" /\ TagEnd(text, i + 1) > i + 1
    THEN << SubSeq(text, i + 1, TagEnd(text, i + 1) - 1) >> \o TagsFrom(text, TagEnd(text, i + 1))
    ELSE TagsFrom(text, i + 1)

parseTags(text) == [cleanText |-> text, tags |-> TagsFrom(text, 1)]

(***************************************************************************)
(* Regular expressions of the date and recurrence vocabulary               *)
(*                                                                         *)
(* An expression is an alternation of token sequences; a sequence is       *)
(* matched greedily from left to right:                                    *)
(*   Lit(s)  the literal s          Sp    \s+         Num   \d+            *)
(*   Wd      \w+                    B     \b          Opt(s) (?:s)?        *)
(*   Alt(q)  the first literal of the sequence q that occurs here          *)
(*   OSp     \s*                    Dig2  \d{2}       Dig4  \d{4}          *)
(*   DayListB  (?:\s*,\s*(sunday|...|saturday))*\b, the one place where a  *)
(*             repetition is given back until the \b holds                 *)
(* None of the expressions of the source needs more backtracking than      *)
(* that: a token never competes with the token after it for a character.   *)
(***************************************************************************)
Lit(s) == [t |-> "lit", s |-> s, q |-> << >>]
Opt(s) == [t |-> "opt", s |-> s, q |-> << >>]
Alt(q) == [t |-> "alt", s |-> "", q |-> q]
Sp == [t |-> "sp", s |-> "", q |-> << >>]
OSp == [t |-> "osp", s |-> "", q |-> << >>]
Num == [t |-> "num", s |-> "", q |-> << >>]
Wd == [t |-> "word", s |-> "", q |-> << >>]
B == [t |-> "b", s |-> "", q |-> << >>]
Dig2 == [t |-> "dig", s |-> "00", q |-> << >>]
Dig4 == [t |-> "dig", s |-> "0000", q |-> << >>]
DayListB == [t |-> "daylist", s |-> "", q |-> << >>]

\* \b between the characters i - 1 and i
IsBoundary(s, i) ==
    LET before == i >= 2 /\ i - 1 <= Len(s) /\ IsWord(Ch(s, i - 1))
        after == i >= 1 /\ i <= Len(s) /\ IsWord(Ch(s, i))
    IN before # after

RECURSIVE AltPick(_, _, _, _)
\* the first alternative of q that occurs in s at i (0 when none does)
AltPick(s, i, q, k) ==
    IF k > Len(q) THEN 0
    ELSE IF StartsAt(s, q[k], i) THEN k
    ELSE AltPick(s, i, q, k + 1)

WeekDays == << "sunday", "monday", "tuesday", "wednesday", "thursday", "friday", "saturday" >>

RECURSIVE DayListEnd(_, _)
\* (?:\s*,\s*(sunday|...|saturday))*\b at index i: the index after the longest run of
\* repetitions that ends at a \b, 0 when there is none
DayListEnd(s, i) ==
    LET j == SkipSpaces(s, i)
        d == SkipSpaces(s, j + 1)
        a == IF StartsAt(s, ",", j) THEN AltPick(s, d, WeekDays, 1) ELSE 0
        more == IF a > 0 THEN DayListEnd(s, d + Len(WeekDays[a])) ELSE 0
    IN IF more > 0 THEN more
       ELSE IF IsBoundary(s, i) THEN i ELSE 0

\* exactly n digits at i
DigitsAt(s, i, n) == i + n - 1 <= Len(s) /\ \A k \in i..(i + n - 1) : IsDigit(Ch(s, k))

RECURSIVE MatchToks(_, _, _, _)
\* the tokens toks[k..] matched at index i of s: the index after the match, 0 when
\* they do not match
MatchToks(s, i, toks, k) ==
    IF k > Len(toks) THEN i
    ELSE LET tk == toks[k]
         IN CASE tk.t = "lit" ->
                   IF StartsAt(s, tk.s, i) THEN MatchToks(s, i + Len(tk.s), toks, k + 1) ELSE 0
              [] tk.t = "opt" ->
                   IF StartsAt(s, tk.s, i) THEN MatchToks(s, i + Len(tk.s), toks, k + 1)
                   ELSE MatchToks(s, i, toks, k + 1)
              [] tk.t = "alt" ->
                   LET a == AltPick(s, i, tk.q, 1)
                   IN IF a = 0 THEN 0 ELSE MatchToks(s, i + Len(tk.q[a]), toks, k + 1)
              [] tk.t = "sp" ->
                   IF SkipSpaces(s, i) > i THEN MatchToks(s, SkipSpaces(s, i), toks, k + 1) ELSE 0
              [] tk.t = "osp" -> MatchToks(s, SkipSpaces(s, i), toks, k + 1)
              [] tk.t = "num" ->
                   IF DigitsEnd(s, i) > i THEN MatchToks(s, DigitsEnd(s, i), toks, k + 1) ELSE 0
              [] tk.t = "word" ->
                   IF WordEnd(s, i) > i THEN MatchToks(s, WordEnd(s, i), toks, k + 1) ELSE 0
              [] tk.t = "b" ->
                   IF IsBoundary(s, i) THEN MatchToks(s, i, toks, k + 1) ELSE 0
              [] tk.t = "dig" ->
                   IF DigitsAt(s, i, Len(tk.s)) THEN MatchToks(s, i + Len(tk.s), toks, k + 1) ELSE 0
              [] tk.t = "daylist" ->
                   IF DayListEnd(s, i) > 0 THEN MatchToks(s, DayListEnd(s, i), toks, k + 1) ELSE 0

NoMatch == [at |-> 0, end |-> 0]

RECURSIVE FirstOf(_, _, _)
\* an alternation (a|b|...) whose branches are token sequences, tried at index p: the
\* index after the first branch that matches, 0 when none does
FirstOf(s, p, alts) ==
    IF alts = << >> THEN 0
    ELSE LET e == MatchToks(s, p, Head(alts), 1)
         IN IF e > 0 THEN e ELSE FirstOf(s, p, Tail(alts))

RECURSIVE FindAlts(_, _, _)
\* the leftmost match of the alternation at or after index p: [at, end), or NoMatch
FindAlts(s, alts, p) ==
    IF p > Len(s) + 1 THEN NoMatch
    ELSE LET e == FirstOf(s, p, alts)
         IN IF e > 0 THEN [at |-> p, end |-> e] ELSE FindAlts(s, alts, p + 1)

\* text.match(expression) of a /i expression
Match(text, alts) == FindAlts(ToLower(text), alts, 1)

\* text.match(expression) of a case-sensitive expression
MatchCS(text, alts) == FindAlts(text, alts, 1)

\* match[0]
Matched(text, m) == SubSeq(text, m.at, m.end - 1)

\* DAY_NAMES: sunday = 0 .. saturday = 6
DAY_NAMES(name) == (CHOOSE k \in 1..7 : WeekDays[k] = name) - 1

\* NATURAL_DATE_PATTERNS
PAT_TODAY == << << B, Lit("today"), B >> >>
PAT_TOMORROW == << << B, Lit("tomorrow"), B >> >>
PAT_YESTERDAY == << << B, Lit("yesterday"), B >> >>
PAT_NEXT_DAY == << << B, Lit("next"), Sp, Alt(WeekDays), B >> >>
PAT_THIS_DAY == << << B, Lit("this"), Sp, Alt(WeekDays), B >> >>
PAT_LAST_DAY == << << B, Lit("last"), Sp, Alt(WeekDays), B >> >>
PAT_IN_X_DAYS == << << B, Lit("in"), Sp, Num, Sp, Lit("day"), Opt("s"), B >> >>
PAT_IN_X_WEEKS == << << B, Lit("in"), Sp, Num, Sp, Lit("week"), Opt("s"), B >> >>
PAT_IN_X_MONTHS == << << B, Lit("in"), Sp, Num, Sp, Lit("month"), Opt("s"), B >> >>
PAT_X_DAYS_AGO == << << B, Num, Sp, Lit("day"), Opt("s"), Sp, Lit("ago"), B >> >>
PAT_NEXT_WEEK == << << B, Lit("next"), Sp, Lit("week"), B >> >>
PAT_NEXT_MONTH == << << B, Lit("next"), Sp, Lit("month"), B >> >>
PAT_END_OF_WEEK == << << B, Lit("end"), Sp, Lit("of"), Sp, Lit("week"), B >> >>
PAT_END_OF_MONTH == << << B, Lit("end"), Sp, Lit("of"), Sp, Lit("month"), B >> >>

\* RECURRENCE_PATTERNS
PAT_DAILY == << << B, Lit("every"), Sp, Lit("day"), B >>, << B, Lit("daily"), B >> >>
PAT_WEEKLY == << << B, Lit("every"), Sp, Lit("week"), B >>, << B, Lit("weekly"), B >> >>
PAT_MONTHLY == << << B, Lit("every"), Sp, Lit("month"), B >>, << B, Lit("monthly"), B >> >>
PAT_YEARLY == << << B, Lit("every"), Sp, Lit("year"), B >>, << B, Lit("yearly"), B >>,
                 << B, Lit("annually"), B >> >>
PAT_EVERY_X_DAYS == << << B, Lit("every"), Sp, Num, Sp, Lit("day"), Opt("s"), B >> >>
PAT_EVERY_X_WEEKS == << << B, Lit("every"), Sp, Num, Sp, Lit("week"), Opt("s"), B >> >>
PAT_EVERY_X_MONTHS == << << B, Lit("every"), Sp, Num, Sp, Lit("month"), Opt("s"), B >> >>
PAT_EVERY_DAY_OF_WEEK == << << B, Lit("every"), Sp, Alt(WeekDays), DayListB >> >>
PAT_WEEKDAYS == << << B, Lit("every"), Sp, Lit("weekday"), B >>, << B, Lit("weekdays"), B >> >>
PAT_WEEKENDS == << << B, Lit("every"), Sp, Lit("weekend"), B >>, << B, Lit("weekends"), B >> >>

\* /\b(sunday|monday|tuesday|wednesday|thursday|friday|saturday)\b/g
PAT_DAY_NAME == << << B, Alt(WeekDays), B >> >>

(***************************************************************************)
(* Calendar: the local-time Date arithmetic the parser uses                *)
(***************************************************************************)
IsLeap(y) == (y % 4 = 0 /\ y % 100 # 0) \/ y % 400 = 0

DaysInMonthOf(y, m) ==
    IF m = 2 THEN (IF IsLeap(y) THEN 29 ELSE 28)
    ELSE IF m \in {4, 6, 9, 11} THEN 30 ELSE 31

DaysBefore(yy, mp, d) ==
    (yy \div 400) * 146097 + (yy % 400) * 365 + ((yy % 400) \div 4) - ((yy % 400) \div 100)
    + ((153 * mp + 2) \div 5) + d - 1

\* days from 0000-03-01 to y-m-d (proleptic Gregorian), for d in 1..31
DayNumber(y, m, d) ==
    DaysBefore(IF m <= 2 THEN y - 1 ELSE y, IF m > 2 THEN m - 3 ELSE m + 9, d)

CivilFromMp(y, doy, mp) ==
    [y |-> y + (IF mp >= 10 THEN 1 ELSE 0),
     m |-> IF mp < 10 THEN mp + 3 ELSE mp - 9,
     d |-> doy - ((153 * mp + 2) \div 5) + 1]

CivilFromDoy(y, doy) == CivilFromMp(y, doy, (5 * doy + 2) \div 153)

CivilFromYoe(era, doe, yoe) ==
    CivilFromDoy(era * 400 + yoe, doe - (365 * yoe + (yoe \div 4) - (yoe \div 100)))

CivilFromDoe(era, doe) ==
    CivilFromYoe(era, doe, (doe - (doe \div 1460) + (doe \div 36524) - (doe \div 146096)) \div 365)

\* the inverse of DayNumber
DateOfDayNumber(n) == CivilFromDoe(n \div 146097, n % 146097)

\* new Date(year, monthIndex, day): month and day overflow carry over
MakeDate(y, monthIndex, d) ==
    DateOfDayNumber(DayNumber(y + (monthIndex \div 12), (monthIndex % 12) + 1, 1) + d - 1)

\* date.setDate(date.getDate() + n)
AddDays(date, n) == DateOfDayNumber(DayNumber(date.y, date.m, date.d) + n)

\* date.setMonth(date.getMonth() + n)
AddMonths(date, n) == MakeDate(date.y, date.m - 1 + n, date.d)

\* date.setDate(n)
SetDate(date, n) == MakeDate(date.y, date.m - 1, n)

\* Date.prototype.getDay: sunday = 0 (0000-03-01 is a wednesday)
getDay(date) == (DayNumber(date.y, date.m, date.d) + 3) % 7

\* String(n).padStart(2, '0')
Pad2(n) == IF n < 10 THEN "0" \o NatToStr(n) ELSE NatToStr(n)

formatISODate(date) == NatToStr(date.y) \o "-" \o Pad2(date.m) \o "-" \o Pad2(date.d)

\* NextDayOffset with "daysToAdd < 0" for "daysToAdd <= 0" and no skipping
NextDayOffsetSameDay(daysToAdd, skipThisWeek) ==
    IF daysToAdd < 0 THEN daysToAdd + 7 ELSE daysToAdd

NextDayOffset(daysToAdd, skipThisWeek) ==
    IF daysToAdd <= 0 \/ (skipThisWeek /\ daysToAdd < 7) THEN daysToAdd + 7 ELSE daysToAdd

getNextDayOfWeek(from, targetDay, skipThisWeek) ==
    AddDays(from, NextDayOffset(targetDay - getDay(from), skipThisWeek))

LastDayOffset(daysToSubtract) ==
    IF daysToSubtract <= 0 THEN daysToSubtract + 7 ELSE daysToSubtract

getLastDayOfWeek(from, targetDay) ==
    AddDays(from, 0 - LastDayOffset(getDay(from) - targetDay))

(***************************************************************************)
(* parseNaturalDate, parseRecurrence, parseDate                            *)
(***************************************************************************)
RECURSIVE FirstDigit(_, _)
\* the index of the first digit of s at or after i
FirstDigit(s, i) ==
    IF i > Len(s) \/ IsDigit(Ch(s, i)) THEN i ELSE FirstDigit(s, i + 1)

\* parseInt(match[1], 10) for the (\d+) group of a matched phrase
NumberIn(phrase) == StrToNat(phrase, FirstDigit(phrase, 1), 0)

\* DAY_NAMES[match[1].toLowerCase()] for the weekday group that ends a matched phrase
DayIn(phrase) ==
    LET low == ToLower(phrase)
    IN DAY_NAMES(CHOOSE name \in {WeekDays[k] : k \in 1..7} :
                    Len(name) <= Len(low) /\ StartsAt(low, name, Len(low) - Len(name) + 1))

NoDate == [date |-> None, matched |-> None]

\* the first expression of the ordered list that matches text: its place in the list, 0
\* when none matches
RECURSIVE FirstPattern(_, _, _)
FirstPattern(text, pats, k) ==
    IF k > Len(pats) THEN 0
    ELSE IF Match(text, pats[k]) # NoMatch THEN k
    ELSE FirstPattern(text, pats, k + 1)

NaturalPatterns ==
    << PAT_TODAY, PAT_TOMORROW, PAT_YESTERDAY, PAT_NEXT_DAY, PAT_THIS_DAY, PAT_LAST_DAY,
       PAT_IN_X_DAYS, PAT_IN_X_WEEKS, PAT_IN_X_MONTHS, PAT_X_DAYS_AGO, PAT_NEXT_WEEK,
       PAT_NEXT_MONTH, PAT_END_OF_WEEK, PAT_END_OF_MONTH >>

\* "end of week" / "eow": the next sunday, a week later when that is today
EndOfWeek(today, endOfWeek) ==
    IF endOfWeek = today /\ getDay(today) # 0 THEN AddDays(endOfWeek, 7) ELSE endOfWeek

\* a whole number of days from today
DaysFromToday(k, n) ==
    CASE k = 1 -> 0
      [] k = 2 -> 1
      [] k = 3 -> 0 - 1
      [] k = 7 -> n
      [] k = 8 -> n * 7
      [] k = 10 -> 0 - n

\* the date the k-th expression of NATURAL_DATE_PATTERNS gives for its matched phrase
NaturalDate(today, k, phrase) ==
    CASE k \in {1, 2, 3, 7, 8, 10} ->
             AddDays(today, DaysFromToday(k, IF k >= 7 THEN NumberIn(phrase) ELSE 0))
      [] k \in {4, 5, 11} ->
             getNextDayOfWeek(today, IF k = 11 THEN 1 ELSE DayIn(phrase), k # 5)
      [] k = 6 -> getLastDayOfWeek(today, DayIn(phrase))
      [] k \in {9, 14} ->
             MakeDate(today.y,
                      today.m - 1 + (IF k = 9 THEN NumberIn(phrase) ELSE 1),
                      IF k = 9 THEN today.d ELSE 0)
      [] k = 12 -> SetDate(AddMonths(today, 1), 1)
      [] k = 13 -> EndOfWeek(today, getNextDayOfWeek(today, 0, FALSE))

NaturalResult(today, k, phrase) ==
    [date |-> formatISODate(NaturalDate(today, k, phrase)), matched |-> phrase]

NaturalDateOf(text, today, k) ==
    IF k = 0 THEN NoDate
    ELSE NaturalResult(today, k, Matched(text, Match(text, NaturalPatterns[k])))

\* parseNaturalDate(text, referenceDate): the ISO date and the matched phrase
parseNaturalDate(text, today) == NaturalDateOf(text, today, FirstPattern(text, NaturalPatterns, 1))

\* RecurrencePattern; interval = 0 and daysOfWeek = << >> are the absent fields, and
\* frequency = "none" is the absent pattern
NoRecurrence == [frequency |-> "none", interval |-> 0, daysOfWeek |-> << >>, rawPattern |-> None]

Recurrence(frequency, interval, daysOfWeek, raw) ==
    [frequency |-> frequency, interval |-> interval, daysOfWeek |-> daysOfWeek, rawPattern |-> raw]

RECURSIVE DayNamesFrom(_, _)
DayNamesAt(low, m) ==
    IF m = NoMatch THEN << >>
    ELSE << SubSeq(low, m.at, m.end - 1) >> \o DayNamesFrom(low, m.end)

\* phrase.toLowerCase().match(/\b(sunday|...|saturday)\b/g)
DayNamesFrom(low, p) == DayNamesAt(low, FindAlts(low, PAT_DAY_NAME, p))

RecurrencePatterns ==
    << PAT_DAILY, PAT_WEEKLY, PAT_MONTHLY, PAT_YEARLY, PAT_EVERY_X_DAYS, PAT_EVERY_X_WEEKS,
       PAT_EVERY_X_MONTHS, PAT_EVERY_DAY_OF_WEEK, PAT_WEEKDAYS, PAT_WEEKENDS >>

\* the pattern the k-th expression of RECURRENCE_PATTERNS gives for its matched phrase
RecurrenceOf(k, phrase) ==
    Recurrence(CASE k \in {1, 5} -> "daily"
                 [] k \in {3, 7} -> "monthly"
                 [] k = 4 -> "yearly"
                 [] OTHER -> "weekly",
               IF k \in {5, 6, 7} THEN NumberIn(phrase) ELSE 0,
               CASE k = 8 -> DayNamesFrom(ToLower(phrase), 1)
                 [] k = 9 -> << "monday", "tuesday", "wednesday", "thursday", "friday" >>
                 [] k = 10 -> << "saturday", "sunday" >>
                 [] OTHER -> << >>,
               phrase)

RecurrenceResult(k, phrase) == [pattern |-> RecurrenceOf(k, phrase), matched |-> phrase]

RecurrenceAt(text, k) ==
    IF k = 0 THEN [pattern |-> NoRecurrence, matched |-> None]
    ELSE RecurrenceResult(k, Matched(text, Match(text, RecurrencePatterns[k])))

\* parseRecurrence(text): the pattern and the matched phrase
parseRecurrence(text) == RecurrenceAt(text, FirstPattern(text, RecurrencePatterns, 1))

SeqHas(q, x) == \E i \in 1..Len(q) : q[i] = x

\* serializeRecurrence(pattern)
serializeRecurrence(pattern) ==
    LET interval == IF pattern.interval = 0 THEN 1 ELSE pattern.interval
        days == pattern.daysOfWeek
        unit == CASE pattern.frequency = "daily" -> "day"
                  [] pattern.frequency = "weekly" -> "week"
                  [] pattern.frequency = "monthly" -> "month"
                  [] pattern.frequency = "yearly" -> "year"
                  [] OTHER -> ""
    IN IF pattern.rawPattern # None THEN pattern.rawPattern
       ELSE IF Len(days) = 5 /\ \A d \in {"monday", "tuesday", "wednesday", "thursday", "friday"} :
                                   SeqHas(days, d)
       THEN "weekdays"
       ELSE IF Len(days) = 2 /\ SeqHas(days, "saturday") /\ SeqHas(days, "sunday")
       THEN "weekends"
       ELSE IF Len(days) > 0 THEN "every " \o Join(days, ", ")
       ELSE IF unit = "" THEN "daily"
       ELSE IF interval = 1 THEN pattern.frequency
       ELSE "every " \o NatToStr(interval) \o " " \o unit \o "s"

\* a RecurrencePattern with its dayOfMonth; 0 is the absent field
Rule(frequency, interval, daysOfWeek, dayOfMonth) ==
    [frequency |-> frequency, interval |-> interval, daysOfWeek |-> daysOfWeek,
     dayOfMonth |-> dayOfMonth]

\* getDaysInMonth(date): new Date(year, month + 1, 0).getDate()
getDaysInMonth(date) == MakeDate(date.y, date.m, 0).d

\* pattern.daysOfWeek.map(d => DAY_NAMES[d]), as a set
TargetDays(daysOfWeek) == { DAY_NAMES(daysOfWeek[i]) : i \in 1..Len(daysOfWeek) }

\* the first element of the sorted list
FirstDay(targetDays) == CHOOSE d \in targetDays : \A e \in targetDays : d <= e

\* WeeklyOffset with "d >= currentDay" for "d > currentDay"
WeeklyOffsetSameDay(targetDays, currentDay, later) ==
    IF currentDay \in targetDays THEN 0
    ELSE IF later = { } THEN 7 - currentDay + FirstDay(targetDays)
    ELSE FirstDay(later) - currentDay

\* weekly with a weekday set: the days to add
WeeklyOffset(targetDays, currentDay, later) ==
    IF later = { } THEN 7 - currentDay + FirstDay(targetDays)
    ELSE FirstDay(later) - currentDay

\* monthly: next after setMonth, then the clamped dayOfMonth if one is set
MonthlyNext(next, dayOfMonth) ==
    IF dayOfMonth # 0
    THEN SetDate(next, IF dayOfMonth < getDaysInMonth(next) THEN dayOfMonth
                       ELSE getDaysInMonth(next))
    ELSE next

NextByFrequency(pattern, next, interval, currentDay) ==
    CASE pattern.frequency = "daily" -> AddDays(next, interval)
      [] pattern.frequency = "weekly" ->
             IF Len(pattern.daysOfWeek) > 0
             THEN AddDays(next, WeeklyOffset(TargetDays(pattern.daysOfWeek), currentDay,
                          { d \in TargetDays(pattern.daysOfWeek) : d > currentDay }))
             ELSE AddDays(next, 7 * interval)
      [] pattern.frequency = "monthly" ->
             MonthlyNext(AddMonths(next, interval), pattern.dayOfMonth)
      [] pattern.frequency = "yearly" -> MakeDate(next.y + interval, next.m - 1, next.d)
      [] OTHER -> next

\* getNextOccurrence(pattern, fromDate)
getNextOccurrence(pattern, fromDate) ==
    NextByFrequency(pattern, fromDate, IF pattern.interval = 0 THEN 1 ELSE pattern.interval,
                    getDay(fromDate))

\* /@(\d{4}-\d{2}-\d{2})(?:T(\d{2}:\d{2}))?/ without the optional group
PAT_ISO_DATE == << << Lit("@"), Dig4, Lit("-"), Dig2, Lit("-"), Dig2 >> >>

\* /T(\d{2}:\d{2})/ at a given index: the optional group of the ISO expression
PAT_ISO_TIME == << Lit("T"), Dig2, Lit(":"), Dig2 >>

\* /@@(\d{2}:\d{2})/
PAT_TIME_ONLY == << << Lit("@@"), Dig2, Lit(":"), Dig2 >> >>

\* /@(today|tomorrow|yesterday|next\s+\w+|this\s+\w+|last\s+\w+|in\s+\d+\s+\w+|\d+\s+\w+\s+ago|end\s+of\s+\w+)/i
PAT_NATURAL_PREFIX ==
    << << Lit("@"), Lit("today") >>,
       << Lit("@"), Lit("tomorrow") >>,
       << Lit("@"), Lit("yesterday") >>,
       << Lit("@"), Lit("next"), Sp, Wd >>,
       << Lit("@"), Lit("this"), Sp, Wd >>,
       << Lit("@"), Lit("last"), Sp, Wd >>,
       << Lit("@"), Lit("in"), Sp, Num, Sp, Wd >>,
       << Lit("@"), Num, Sp, Wd, Sp, Lit("ago") >>,
       << Lit("@"), Lit("end"), Sp, Lit("of"), Sp, Wd >> >>

RECURSIVE BracketAt(_, _, _)
\* text.match(/\[key::([^\]]+)\]/) for the opening "[key::": [at, end) of the leftmost
\* match, or NoMatch
BracketAt(text, open, p) ==
    LET k == IndexFrom(text, open, p)
        r == IndexFrom(text, "]", k + Len(open))
    IN IF k = 0 THEN NoMatch
       ELSE IF r > k + Len(open) THEN [at |-> k, end |-> r + 1]
       ELSE BracketAt(text, open, k + 1)

\* the ([^\]]+) group of a BracketAt match
BracketValue(text, open, m) == SubSeq(text, m.at + Len(open), m.end - 2)

\* what parseDate has found so far
DateState(text) ==
    [cleanText |-> text, dueDate |-> None, dueTime |-> None,
     recurrence |-> NoRecurrence, reminderTime |-> None]

\* cleanText = cleanText.replace(found, '').trim()
Cut(st, found) == [st EXCEPT !.cleanText = Trim(ReplaceFirst(@, found, ""))]

\* the ISO step for a date match iso whose optional time group ends before isoTimeEnd
TakeIso(st, text, iso, isoTimeEnd) ==
    IF isoTimeEnd > 0
    THEN [Cut(st, SubSeq(text, iso.at, isoTimeEnd - 1)) EXCEPT
             !.dueDate = SubSeq(text, iso.at + 1, iso.end - 1),
             !.dueTime = SubSeq(text, iso.end + 1, isoTimeEnd - 1)]
    ELSE [Cut(st, Matched(text, iso)) EXCEPT !.dueDate = SubSeq(text, iso.at + 1, iso.end - 1)]

IsoStep(st, text, iso) ==
    IF iso = NoMatch THEN st ELSE TakeIso(st, text, iso, MatchToks(text, iso.end, PAT_ISO_TIME, 1))

TimeOnlyStep(st, text, tonly) ==
    IF tonly # NoMatch /\ st.dueTime = None
    THEN [Cut(st, Matched(text, tonly)) EXCEPT !.dueTime = SubSeq(text, tonly.at + 2, tonly.end - 1)]
    ELSE st

\* if (date && matched) { dueDate = date; cleanText = cleanText.replace(found, '').trim() }
TakeNatural(st, nat, found) ==
    IF nat.date # None /\ nat.matched # None THEN [Cut(st, found) EXCEPT !.dueDate = nat.date]
    ELSE st

NaturalPrefixed(st, preText, today) ==
    TakeNatural(st, parseNaturalDate(preText, today), "@" \o preText)

NaturalInline(st, nat) == TakeNatural(st, nat, nat.matched)

NaturalStep(st, text, parseNatural, today, pre) ==
    IF ~(parseNatural /\ st.dueDate = None) THEN st
    ELSE IF pre # NoMatch THEN NaturalPrefixed(st, SubSeq(text, pre.at + 1, pre.end - 1), today)
    ELSE NaturalInline(st, parseNaturalDate(text, today))

RecurrenceStep(st, rec) ==
    IF rec.pattern # NoRecurrence /\ rec.matched # None
    THEN [Cut(st, rec.matched) EXCEPT !.recurrence = rec.pattern]
    ELSE st

\* { ...metaPattern, _rawPattern: recurMetaMatch[1] }, or the daily pattern that keeps
\* a phrase parseRecurrence does not know
MetaRecurrence(metaPattern, rmText) ==
    IF metaPattern # NoRecurrence THEN [metaPattern EXCEPT !.rawPattern = rmText]
    ELSE Recurrence("daily", 0, << >>, rmText)

TakeRecurMeta(st, rm, rmText) ==
    [Cut(st, Matched(st.cleanText, rm)) EXCEPT
        !.recurrence = MetaRecurrence(parseRecurrence(rmText).pattern, rmText)]

RecurMetaStep(st, rm) ==
    IF rm # NoMatch /\ st.recurrence = NoRecurrence
    THEN TakeRecurMeta(st, rm, BracketValue(st.cleanText, "[recur::", rm))
    ELSE st

RemindStep(st, rd) ==
    IF rd # NoMatch
    THEN [Cut(st, Matched(st.cleanText, rd)) EXCEPT
             !.reminderTime = BracketValue(st.cleanText, "[remind::", rd)]
    ELSE st

\* the steps of parseDate in the order of the source
DateIso(text) == IsoStep(DateState(text), text, MatchCS(text, PAT_ISO_DATE))

DateTimeOnly(st, text) == TimeOnlyStep(st, text, MatchCS(text, PAT_TIME_ONLY))

DateNatural(st, text, parseNatural, today) ==
    NaturalStep(st, text, parseNatural, today, Match(text, PAT_NATURAL_PREFIX))

DateRecurrence(st) == RecurrenceStep(st, parseRecurrence(st.cleanText))

DateRecurMeta(st) == RecurMetaStep(st, BracketAt(st.cleanText, "[recur::", 1))

DateRemind(st) == RemindStep(st, BracketAt(st.cleanText, "[remind::", 1))

\* parseDate(text, parseNatural), with the clock's date of the call
parseDate(text, parseNatural, today) ==
    DateRemind(DateRecurMeta(DateRecurrence(
        DateNatural(DateTimeOnly(DateIso(text), text), text, parseNatural, today))))

(***************************************************************************)
(* parseCard, parseLane                                                    *)
(***************************************************************************)
\* generateId(): a token no other call returns.  The model names the token after the
\* parse call that asks for it (fresh.nonce) and the line of the document it is asked
\* for (fresh.base + place), so two calls return the same token only if they are the
\* same call.
generateId(fresh, kind, place) ==
    "g" \o NatToStr(fresh.nonce) \o kind \o NatToStr(fresh.base + place)

\* line.match(/^(\s*)/)[1].length
IndentOf(line) == SkipSpaces(line, 1) - 1

\* line.match(/^(\s*)-\s*\[([ xX])\]\s*(.*)$/): ok, the indent, the mark and the rest
CheckboxMatch(line) ==
    LET i == SkipSpaces(line, 1)
        j == SkipSpaces(line, i + 1)
        ok == /\ StartsAt(line, "-", i)
              /\ StartsAt(line, "[", j)
              /\ j + 2 <= Len(line)
              /\ Ch(line, j + 1) \in {" ", "x", "X"}
              /\ Ch(line, j + 2) = "]"
    IN [ok |-> ok,
        indent |-> i - 1,
        mark |-> IF ok THEN Ch(line, j + 1) ELSE "",
        rest |-> IF ok THEN SliceFrom(line, SkipSpaces(line, j + 3)) ELSE ""]

\* line.match(/^\s*>/)
IsNoteLine(line) == StartsAt(line, ">", SkipSpaces(line, 1))

\* line.match(/^\s*>\s?(.*)$/)[1]
NoteText(line) ==
    LET g == SkipSpaces(line, 1)
    IN IF g + 1 <= Len(line) /\ IsSpace(Ch(line, g + 1))
       THEN SliceFrom(line, g + 2) ELSE SliceFrom(line, g + 1)

\* line.match(/^\s+-\s*\[/)
IsIndentedDash(line) ==
    LET i == SkipSpaces(line, 1)
    IN i > 1 /\ StartsAt(line, "-", i) /\ StartsAt(line, "[", SkipSpaces(line, i + 1))

\* line.match(/^\s*-\s*\[/)
IsDashBracket(line) ==
    LET i == SkipSpaces(line, 1)
    IN StartsAt(line, "-", i) /\ StartsAt(line, "[", SkipSpaces(line, i + 1))

\* a look-ahead that never finds more content: every empty line ends the block
NoMoreContent(lines, j, cardIndent) == FALSE

RECURSIVE HasMoreContent(_, _, _)
\* the look-ahead of parseCard at an empty line: the next non-empty line at or after j
\* is indented more than the card, or is a note line or an indented "- [" line
HasMoreContent(lines, j, cardIndent) ==
    IF j > Len(lines) THEN FALSE
    ELSE IF Trim(lines[j]) = "" THEN HasMoreContent(lines, j + 1, cardIndent)
    ELSE \/ IndentOf(lines[j]) > cardIndent
         \/ IsNoteLine(lines[j])
         \/ IsIndentedDash(lines[j])

NoBlock == [notes |-> << >>, contentLines |-> << >>, subtasks |-> << >>]

RECURSIVE ContentScan(_, _, _, _, _, _)
\* one turn of the loop of parseCard, at line i, sub being the line's checkbox match
ScanLine(lines, i, cardIndent, acc, endIndex, fresh, line, sub) ==
    IF Trim(line) = ""
    THEN IF HasMoreContent(lines, i + 1, cardIndent)
         THEN ContentScan(lines, i + 1, cardIndent,
                          [acc EXCEPT !.contentLines = Append(@, "")], i, fresh)
         ELSE [block |-> acc, endIndex |-> endIndex]
    ELSE IF IsNoteLine(line)
    THEN ContentScan(lines, i + 1, cardIndent,
                     [acc EXCEPT !.notes = Append(@, NoteText(line)),
                                 !.contentLines = Append(@, line)], i, fresh)
    ELSE IF sub.ok /\ sub.indent >= 1 /\ sub.indent > cardIndent
    THEN ContentScan(lines, i + 1, cardIndent,
                     [acc EXCEPT !.subtasks = Append(@, [id |-> generateId(fresh, "s", i),
                                                          text |-> Trim(sub.rest),
                                                          completed |-> ToLower(sub.mark) = "x"]),
                                 !.contentLines = Append(@, line)], i, fresh)
    ELSE IF IndentOf(line) > cardIndent
    THEN ContentScan(lines, i + 1, cardIndent,
                     [acc EXCEPT !.contentLines = Append(@, line)], i, fresh)
    ELSE [block |-> acc, endIndex |-> endIndex]

\* the loop of parseCard over the lines after the card line (i is 1-based); endIndex is
\* the last line taken
ContentScan(lines, i, cardIndent, acc, endIndex, fresh) ==
    IF i > Len(lines) THEN [block |-> acc, endIndex |-> endIndex]
    ELSE ScanLine(lines, i, cardIndent, acc, endIndex, fresh, lines[i], CheckboxMatch(lines[i]))

\* KanbanCard.  An absent string field (undefined) is None, an absent recurrence is
\* NoRecurrence, absent subtasks are << >>.
NoCard == [id |-> None]

\* the KanbanCard object of parseCard, from the parts the function has computed
CardOf(line, existingId, newId, cb, md, afterMetadata, dt, block) ==
    [id |-> IF existingId # None THEN existingId ELSE newId,
     title |-> afterMetadata,
     completed |-> ToLower(cb.mark) = "x",
     tags |-> parseTags(afterMetadata).tags,
     dueDate |-> dt.dueDate,
     dueTime |-> dt.dueTime,
     recurrence |-> dt.recurrence,
     reminderTime |-> dt.reminderTime,
     notes |-> Join(block.notes, NL),
     notePath |-> IF MetaTruthy(md, "note") THEN md[MetaIndex(md, "note")].str ELSE None,
     content |-> Join(block.contentLines, NL),
     subtasks |-> block.subtasks,
     metadata |-> IF MetaTruthy(md, "note") THEN MetaDelete(md, "note") ELSE md,
     rawLine |-> line]

CardWithBlock(line, existingId, newId, cb, md, afterMetadata, dt, scan) ==
    [card |-> CardOf(line, existingId, newId, cb, md, afterMetadata, dt, scan.block),
     endIndex |-> scan.endIndex]

CardFromMetadata(lines, startIndex, parseNaturalDates, today, fresh, cb, existingId, meta) ==
    CardWithBlock(lines[startIndex], existingId, generateId(fresh, "c", startIndex), cb,
                  meta.metadata, meta.cleanText,
                  parseDate(meta.cleanText, parseNaturalDates, today),
                  ContentScan(lines, startIndex + 1, cb.indent, NoBlock, startIndex, fresh))

CardFromTitle(lines, startIndex, parseNaturalDates, today, fresh, cb, idr) ==
    CardFromMetadata(lines, startIndex, parseNaturalDates, today, fresh, cb, idr.id,
                     parseInlineMetadata(idr.content))

CardFromMatch(lines, startIndex, parseNaturalDates, today, fresh, cb) ==
    IF cb.ok
    THEN CardFromTitle(lines, startIndex, parseNaturalDates, today, fresh, cb,
                       extractId(Trim(cb.rest)))
    ELSE [card |-> NoCard, endIndex |-> startIndex]

\* parseCard(lines, startIndex, parseNaturalDates), startIndex 1-based, with the clock's
\* date of the call and the source of fresh identifiers
parseCard(lines, startIndex, parseNaturalDates, today, fresh) ==
    CardFromMatch(lines, startIndex, parseNaturalDates, today, fresh,
                  CheckboxMatch(lines[startIndex]))

RECURSIVE CardsFrom(_, _, _, _)
CardsAfter(lines, i, today, fresh, pc) ==
    IF pc.card # NoCard
    THEN << pc.card >> \o CardsFrom(lines, pc.endIndex + 1, today, fresh)
    ELSE CardsFrom(lines, i + 1, today, fresh)

\* the while loop of parseLane from line i on.  parseLane calls parseCard(lines, i) and
\* so leaves parseNaturalDates at its default, true.
CardsFrom(lines, i, today, fresh) ==
    IF i > Len(lines) THEN << >>
    ELSE CardsAfter(lines, i, today, fresh,
                    IF StartsWith(Trim(lines[i]), "- [")
                    THEN parseCard(lines, i, TRUE, today, fresh)
                    ELSE [card |-> NoCard, endIndex |-> i])

NoLane == [id |-> None]

\* header.match(/^##\s+(.+)$/): the (.+) group, None when the line does not match
LaneTitleMatch(headerLine) ==
    LET a == SkipSpaces(headerLine, 3)
    IN IF StartsWith(headerLine, "##") /\ a > 3
       THEN (IF a <= Len(headerLine) THEN SliceFrom(headerLine, a)
             ELSE IF a > 4 THEN Ch(headerLine, Len(headerLine)) ELSE None)
       ELSE None

LaneOf(lines, today, fresh, idr) ==
    [id |-> IF idr.id # None THEN idr.id ELSE generateId(fresh, "n", 0),
     title |-> idr.content,
     cards |-> CardsFrom(lines, 2, today, fresh),
     rawHeader |-> lines[1]]

LaneFromHeader(lines, today, fresh, tm) ==
    IF tm = None THEN NoLane ELSE LaneOf(lines, today, fresh, extractId(Trim(tm)))

\* parseLane(content)
parseLane(content, today, fresh) ==
    LaneFromHeader(SplitLines(content), today, fresh,
                   LaneTitleMatch(Head(SplitLines(content))))

(***************************************************************************)
(* The settings block and its JSON payload                                 *)
(***************************************************************************)
\* The backquote.  A TLA+ string cannot hold the character, so the model writes the
\* code fence of the settings block with this stand-in; like the backquote it is
\* neither \w nor \s and no other text of the model contains it.
BQ == "~"

FENCE == BQ \o BQ \o BQ

SETTINGS_OPEN == "%% kanban:settings"

RECURSIVE QuoteEnd(_, _)
\* the index of the quote that closes a JSON string whose content starts at i (0 when
\* it is not closed, or holds an escape, which the payloads of the model do not use)
QuoteEnd(s, i) ==
    IF i > Len(s) \/ Ch(s, i) = "\\" \/ Ch(s, i) = NL THEN 0
    ELSE IF Ch(s, i) = "\"" THEN i
    ELSE QuoteEnd(s, i + 1)

\* a JSON value at i: a string, an integer, true, false or null.  [end, text]: the index
\* after it and its text as JSON.stringify prints it; end = 0 when there is none
JsonValueAt(s, i) ==
    LET q == QuoteEnd(s, i + 1)
        neg == StartsAt(s, "-", i)
        b == IF neg THEN i + 1 ELSE i
        e == DigitsEnd(s, b)
        kw == AltPick(s, i, << "true", "false", "null" >>, 1)
    IN IF StartsAt(s, "\"", i)
       THEN (IF q > 0 THEN [end |-> q + 1, text |-> SubSeq(s, i, q)] ELSE [end |-> 0, text |-> ""])
       ELSE IF e > b /\ (e = b + 1 \/ Ch(s, b) # "0")
       THEN [end |-> e, text |-> IF neg /\ StrToNat(s, b, 0) = 0 THEN "0" ELSE SubSeq(s, i, e - 1)]
       ELSE IF kw > 0
       THEN [end |-> i + Len(<< "true", "false", "null" >>[kw]),
             text |-> << "true", "false", "null" >>[kw]]
       ELSE [end |-> 0, text |-> ""]

JsonBad == [ok |-> FALSE, entries |-> << >>]

RECURSIVE JsonMembers(_, _, _)
\* the members of a JSON object from index i (at a key) to its closing brace
JsonMembers(s, i, acc) ==
    LET q == QuoteEnd(s, i + 1)
        c == SkipSpaces(s, q + 1)
        v == JsonValueAt(s, SkipSpaces(s, c + 1))
        n == SkipSpaces(s, v.end)
        acc2 == MetaSet(acc, StrEntry(SubSeq(s, i + 1, q - 1), v.text))
    IN IF ~StartsAt(s, "\"", i) \/ q = 0 \/ ~StartsAt(s, ":", c) \/ v.end = 0 THEN JsonBad
       ELSE IF StartsAt(s, "}", n)
       THEN (IF SkipSpaces(s, n + 1) > Len(s) THEN [ok |-> TRUE, entries |-> acc2] ELSE JsonBad)
       ELSE IF StartsAt(s, ",", n) THEN JsonMembers(s, SkipSpaces(s, n + 1), acc2)
       ELSE JsonBad

\* JSON.parse(text) for the payloads of the model: an object whose values are strings
\* without escapes, integers, true, false or null.  ok = FALSE is the SyntaxError.  The
\* entries are kept in insertion order, a value as the text JSON.stringify prints.
JsonParse(text) ==
    LET a == SkipSpaces(text, 1)
        b == SkipSpaces(text, a + 1)
    IN IF ~StartsAt(text, "{", a) THEN JsonBad
       ELSE IF StartsAt(text, "}", b)
       THEN (IF SkipSpaces(text, b + 1) > Len(text) THEN [ok |-> TRUE, entries |-> << >>] ELSE JsonBad)
       ELSE JsonMembers(text, b, << >>)

RECURSIVE JsonLines(_, _)
JsonLines(entries, i) ==
    IF i > Len(entries) THEN << >>
    ELSE << "  \"" \o entries[i].key \o "\": " \o entries[i].str >> \o JsonLines(entries, i + 1)

\* JSON.stringify(settings, null, 2)
JsonStringify(entries) ==
    IF entries = << >> THEN "{}"
    ELSE "{\n" \o Join(JsonLines(entries, 1), ",\n") \o "\n}"

RECURSIVE ClosingFenceFrom(_, _)
\* the first index c >= i where \s*```\s*%% matches
ClosingFenceFrom(s, i) ==
    IF i > Len(s) THEN 0
    ELSE LET f == SkipSpaces(s, i)
         IN IF StartsAt(s, FENCE, f) /\ StartsAt(s, "%%", SkipSpaces(s, f + 3)) THEN i
            ELSE ClosingFenceFrom(s, i + 1)

RECURSIVE SettingsPayload(_, _)
\* content.match(/%% kanban:settings\s*```(?:json)?\s*([\s\S]*?)\s*```\s*%%/) from index p:
\* [found, text], text being the ([\s\S]*?) group
SettingsPayload(content, p) ==
    LET k == IndexFrom(content, SETTINGS_OPEN, p)
        a == SkipSpaces(content, k + Len(SETTINGS_OPEN))
        b == IF StartsAt(content, "json", a + 3) THEN a + 7 ELSE a + 3
        cs == SkipSpaces(content, b)
        c == ClosingFenceFrom(content, cs)
    IN IF k = 0 THEN [found |-> FALSE, text |-> ""]
       ELSE IF StartsAt(content, FENCE, a) /\ c > 0
       THEN [found |-> TRUE, text |-> SubSeq(content, cs, c - 1)]
       ELSE SettingsPayload(content, k + 1)

\* a parseSettings that keeps the text of a payload JSON.parse rejects
parseSettingsKeepsText(content) ==
    IF ~SettingsPayload(content, 1).found THEN << >>
    ELSE IF JsonParse(SettingsPayload(content, 1).text).ok
    THEN JsonParse(SettingsPayload(content, 1).text).entries
    ELSE << StrEntry("raw", SettingsPayload(content, 1).text) >>

\* parseSettings(content): the BoardSettings object, << >> being {}
parseSettings(content) ==
    LET m == SettingsPayload(content, 1)
        j == JsonParse(m.text)
    IN IF m.found /\ j.ok THEN j.entries ELSE << >>

\* serializeSettings(settings)
serializeSettings(settings) ==
    IF Len(settings) = 0 THEN ""
    ELSE "\n" \o SETTINGS_OPEN \o "\n" \o FENCE \o "json\n" \o JsonStringify(settings)
         \o "\n" \o FENCE \o "\n%%\n"

(***************************************************************************)
(* Frontmatter                                                             *)
(***************************************************************************)
FRONTMATTER_KEY == "kanban-plugin"

RECURSIVE LastNewline(_, _, _)
\* the last index in a..b that holds a newline, 0 when none does
LastNewline(s, a, b) ==
    IF b < a THEN 0
    ELSE IF Ch(s, b) = NL THEN b
    ELSE LastNewline(s, a, b - 1)

\* the index after the match of /^---\s*\n/ (greedy: up to the last newline of the run
\* of \s after the dashes), 0 when the expression does not match
OpeningEnd(content) ==
    LET nl == LastNewline(content, 4, SkipSpaces(content, 4) - 1)
    IN IF StartsWith(content, "---") /\ nl > 0 THEN nl + 1 ELSE 0

\* content.match(/^(---\s*\n[\s\S]*?\n---\s*\n?)/): the length of the match, 0 when
\* there is none.  The first \s* gives back newlines only when no "\n---" lies after it.
FrontmatterLength(content) ==
    LET p1 == OpeningEnd(content)
        k1 == IndexFrom(content, "\n---", p1)
        k == IF p1 = 0 THEN 0
             ELSE IF k1 > 0 THEN k1
             ELSE IF LastNewline(content, 4, p1 - 2) > 0 /\ StartsAt(content, "\n---", p1 - 1)
             THEN p1 - 1
             ELSE 0
    IN IF k = 0 THEN 0 ELSE SkipSpaces(content, k + 4) - 1

\* extractFrontmatter(content)
extractFrontmatter(content) ==
    LET n == FrontmatterLength(content)
    IN [frontmatter |-> SliceTo(content, n + 1), body |-> SliceFrom(content, n + 1)]

\* ensureKanbanFrontmatter(frontmatter)
ensureKanbanFrontmatter(frontmatter) ==
    LET p == OpeningEnd(frontmatter)
    IN IF frontmatter = "" THEN "---\n" \o FRONTMATTER_KEY \o ": basic\n---\n\n"
       ELSE IF ~Includes(frontmatter, FRONTMATTER_KEY) /\ p > 0
       THEN SliceTo(frontmatter, p) \o FRONTMATTER_KEY \o ": basic\n" \o SliceFrom(frontmatter, p)
       ELSE frontmatter

(***************************************************************************)
(* parseKanbanBoard                                                        *)
(***************************************************************************)
\* String.prototype.slice(a, b) and slice(a) for 0 <= a: offsets count from 0 and b is
\* exclusive, as in the source
JsSlice(s, a, b) ==
    IF a >= b \/ a >= Len(s) THEN ""
    ELSE SubSeq(s, a + 1, IF b > Len(s) THEN Len(s) ELSE b)

JsSliceFrom(s, a) == JsSlice(s, a, Len(s))

RECURSIVE MoreKanbanAfter(_, _)
\* the look-ahead of findLaneContentEnd at an empty line: the next non-empty line at or
\* after j is a card line or a note line
MoreKanbanAfter(lines, j) ==
    IF j > Len(lines) THEN FALSE
    ELSE IF IsDashBracket(lines[j]) \/ IsNoteLine(lines[j]) THEN TRUE
    ELSE IF Trim(lines[j]) # "" THEN FALSE
    ELSE MoreKanbanAfter(lines, j + 1)

RECURSIVE LastKanbanLine(_, _, _)
\* the first loop of findLaneContentEnd; i and the result are 1-based line numbers
LastKanbanLine(lines, i, last) ==
    IF i > Len(lines) THEN last
    ELSE LET line == lines[i]
             kanban == \/ (StartsWith(line, "##") /\ Len(line) >= 3 /\ IsSpace(Ch(line, 3)))
                       \/ IsDashBracket(line)
                       \/ IsNoteLine(line)
                       \/ (Trim(line) = "" /\ MoreKanbanAfter(lines, i + 1))
         IN LastKanbanLine(lines, i + 1, IF kanban THEN i ELSE last)

RECURSIVE CharsThrough(_, _)
\* the second loop of findLaneContentEnd: the lengths of lines 1..n, plus one each
CharsThrough(lines, n) ==
    IF n = 0 THEN 0 ELSE CharsThrough(lines, n - 1) + Len(lines[n]) + 1

\* findLaneContentEnd(sectionContent), a 0-based offset
findLaneContentEnd(sectionContent) ==
    LET lines == SplitLines(sectionContent)
    IN CharsThrough(lines, LastKanbanLine(lines, 1, 1))

RECURSIVE LineEnd(_, _)
\* the index of the newline that ends the line holding index i, Len(s) + 1 at the last
LineEnd(s, i) ==
    IF i > Len(s) \/ Ch(s, i) = NL THEN i ELSE LineEnd(s, i + 1)

RECURSIVE LaneMatches(_, _)
\* the matches of /^## .+$/gm in body from the line that starts at index i: a sequence
\* of [index, match], index being the 0-based offset of the match
LaneMatches(body, i) ==
    IF i > Len(body) THEN << >>
    ELSE LET e == LineEnd(body, i)
             hit == StartsAt(body, "## ", i) /\ e >= i + 4
         IN (IF hit THEN << [index |-> i - 1, match |-> SubSeq(body, i, e - 1)] >> ELSE << >>)
            \o LaneMatches(body, e + 1)

\* headerText.match(/^##\s+Archive\s*$/i)
IsArchiveHeader(headerText) ==
    LET a == SkipSpaces(headerText, 3)
    IN /\ StartsWith(headerText, "##")
       /\ a > 3
       /\ StartsAt(ToLower(headerText), "archive", a)
       /\ SkipSpaces(headerText, a + 7) > Len(headerText)

\* body.match(/%% kanban:settings[\s\S]*?%%/): settingsStart and settingsEnd, 0-based,
\* both -1 when there is no match
SettingsSpan(body) ==
    LET at == IndexOf(body, SETTINGS_OPEN)
        close == IF at = 0 THEN 0 ELSE IndexFrom(body, "%%", at + Len(SETTINGS_OPEN))
    IN IF close = 0 THEN [settingsStart |-> -1, settingsEnd |-> -1]
       ELSE [settingsStart |-> at - 1, settingsEnd |-> close + 1]

\* the end of the section of lane i
SectionEnd(body, laneMatches, i, settingsStart) ==
    IF i + 1 <= Len(laneMatches) THEN laneMatches[i + 1].index
    ELSE IF settingsStart > laneMatches[i].index THEN settingsStart
    ELSE Len(body)

SectionContent(body, laneMatches, i, settingsStart) ==
    JsSlice(body, laneMatches[i].index, SectionEnd(body, laneMatches, i, settingsStart))

RECURSIVE LanesFrom(_, _, _, _, _, _)
\* one turn of the loop over laneMatches: lane is what parseLane made of section i, rest
\* what the later turns make
LanesWith(isArchive, lane, rest) ==
    IF isArchive
    THEN (IF lane # NoLane /\ ~rest.hasArchive
          THEN [rest EXCEPT !.archive = lane.cards, !.hasArchive = TRUE]
          ELSE rest)
    ELSE (IF lane # NoLane THEN [rest EXCEPT !.lanes = << lane >> \o @] ELSE rest)

\* the loop over laneMatches: lanes pushed and the archive cards (those of the last
\* archive section), from match i on
LanesFrom(body, laneMatches, i, settingsStart, today, nonce) ==
    IF i > Len(laneMatches) THEN [lanes |-> << >>, archive |-> << >>, hasArchive |-> FALSE]
    ELSE LanesWith(IsArchiveHeader(laneMatches[i].match),
                   parseLane(SectionContent(body, laneMatches, i, settingsStart), today,
                             [nonce |-> nonce, base |-> laneMatches[i].index]),
                   LanesFrom(body, laneMatches, i + 1, settingsStart, today, nonce))

\* the text of a section after its last kanban line, trimmed
TrailingContent(section) == Trim(JsSliceFrom(section, findLaneContentEnd(section)))

\* headerContent
HeaderOf(body, laneMatches, settingsStart) ==
    IF Len(laneMatches) > 0 THEN Trim(JsSlice(body, 0, laneMatches[1].index))
    ELSE IF settingsStart > 0 THEN Trim(JsSlice(body, 0, settingsStart))
    ELSE Trim(body)

\* preSettingsContent: the last section's trailing text when the settings block follows
PreSettingsOf(body, laneMatches, n, settingsStart) ==
    IF n > 0 /\ settingsStart > laneMatches[n].index
    THEN TrailingContent(SectionContent(body, laneMatches, n, settingsStart))
    ELSE ""

\* footerContent
FooterOf(body, laneMatches, n, settingsEnd) ==
    IF settingsEnd > 0 THEN Trim(JsSliceFrom(body, settingsEnd))
    ELSE IF n > 0 THEN TrailingContent(JsSliceFrom(body, laneMatches[n].index))
    ELSE ""

BoardOf(frontmatter, body, laneMatches, span, parsed) ==
    [lanes |-> parsed.lanes,
     archive |-> parsed.archive,
     settings |-> parseSettings(body),
     frontmatter |-> frontmatter,
     headerContent |-> HeaderOf(body, laneMatches, span.settingsStart),
     footerContent |-> FooterOf(body, laneMatches, Len(laneMatches), span.settingsEnd),
     preSettingsContent |-> PreSettingsOf(body, laneMatches, Len(laneMatches), span.settingsStart)]

BoardFromMatches(fm, laneMatches, span, today, nonce) ==
    BoardOf(fm.frontmatter, fm.body, laneMatches, span,
            LanesFrom(fm.body, laneMatches, 1, span.settingsStart, today, nonce))

BoardFromBody(fm, today, nonce) ==
    BoardFromMatches(fm, LaneMatches(fm.body, 1), SettingsSpan(fm.body), today, nonce)

\* parseKanbanBoard(markdown), with the clock's date and the nonce of the call
parseKanbanBoard(markdown, today, nonce) ==
    BoardFromBody(extractFrontmatter(markdown), today, nonce)

(***************************************************************************)
(* Serialization                                                           *)
(***************************************************************************)
\* content.match(/\b(daily|weekly|monthly|yearly|every\s)/i)
PAT_RECURRENCE_WORD ==
    << << B, Lit("daily") >>, << B, Lit("weekly") >>, << B, Lit("monthly") >>,
       << B, Lit("yearly") >>, << B, Lit("every"), Sp >> >>

RECURSIVE OtherMetadata(_, _, _)
\* the loop over Object.entries(card.metadata) of serializeCard
OtherMetadata(md, i, content) ==
    IF i > Len(md) THEN << >>
    ELSE (IF md[i].key # "progress" /\ md[i].key # "project"
             /\ ~Includes(content, md[i].key \o "::")
          THEN << "[" \o md[i].key \o "::" \o MetaText(md[i]) \o "]" >>
          ELSE << >>)
         \o OtherMetadata(md, i + 1, content)

\* metadataToAdd of serializeCard
MetadataToAdd(card) ==
    LET content == card.title
        md == card.metadata
    IN (IF MetaHas(md, "progress") /\ ~Includes(content, "progress::")
        THEN << "[progress::" \o MetaText(md[MetaIndex(md, "progress")]) \o "%]" >> ELSE << >>)
       \o (IF MetaTruthy(md, "project") /\ ~Includes(content, "project::")
           THEN << "[project::" \o MetaText(md[MetaIndex(md, "project")]) \o "]" >> ELSE << >>)
       \o (IF card.notePath # None /\ ~Includes(content, "note::")
           THEN << "[note::" \o card.notePath \o "]" >> ELSE << >>)
       \o (IF card.recurrence # NoRecurrence /\ ~Includes(content, "recur::")
              /\ Match(content, PAT_RECURRENCE_WORD) = NoMatch
           THEN << "[recur::" \o serializeRecurrence(card.recurrence) \o "]" >> ELSE << >>)
       \o (IF card.reminderTime # None /\ ~Includes(content, "remind::")
           THEN << "[remind::" \o card.reminderTime \o "]" >> ELSE << >>)
       \o OtherMetadata(md, 1, content)

RECURSIVE SubtaskLines(_, _)
SubtaskLines(subtasks, i) ==
    IF i > Len(subtasks) THEN << >>
    ELSE << "\t- " \o (IF subtasks[i].completed THEN "[x]" ELSE "[ ]") \o " " \o subtasks[i].text >>
         \o SubtaskLines(subtasks, i + 1)

RECURSIVE NoteLines(_, _)
NoteLines(lines, i) ==
    IF i > Len(lines) THEN << >>
    ELSE << "\t> " \o lines[i] >> \o NoteLines(lines, i + 1)

\* content = `${content} ${metadataToAdd.join(' ')}`
WithMetadata(title, toAdd) ==
    IF Len(toAdd) > 0 THEN title \o " " \o Join(toAdd, " ") ELSE title

\* the due date and time appended to a text that holds no "@"
WithDate(content, card) ==
    IF Includes(content, "@") THEN content
    ELSE IF card.dueDate # None /\ card.dueTime # None
    THEN content \o " @" \o card.dueDate \o "T" \o card.dueTime
    ELSE IF card.dueDate # None THEN content \o " @" \o card.dueDate
    ELSE IF card.dueTime # None THEN content \o " @@" \o card.dueTime
    ELSE content

\* the card line: `- ${checkbox} ${content} ^${card.id}`
CardLine(card) ==
    "- " \o (IF card.completed THEN "[x]" ELSE "[ ]") \o " "
    \o WithDate(WithMetadata(card.title, MetadataToAdd(card)), card) \o " ^" \o card.id

\* contentParts: the block rebuilt from the subtasks and the inline notes
ContentParts(card) ==
    SubtaskLines(card.subtasks, 1)
    \o (IF card.notes # None /\ card.notePath = None
        THEN NoteLines(SplitLines(card.notes), 1) ELSE << >>)

WithParts(result, contentParts) ==
    IF Len(contentParts) > 0 THEN result \o NL \o Join(contentParts, NL) ELSE result

\* serializeCard(card), includeId and serializationFormat at their defaults
serializeCard(card) ==
    IF card.content # None /\ card.notePath = None THEN CardLine(card) \o NL \o card.content
    ELSE WithParts(CardLine(card), ContentParts(card))

RECURSIVE CardLines(_, _)
CardLines(cards, i) ==
    IF i > Len(cards) THEN << >>
    ELSE << serializeCard(cards[i]) >> \o CardLines(cards, i + 1)

\* lines.join('\n') of a section: its header line, an empty line, the cards, an empty line
SectionText(header, cards) == Join(<< header, "" >> \o CardLines(cards, 1) \o << "" >>, NL)

\* serializeLane(lane)
serializeLane(lane) == SectionText("## " \o lane.title \o " ^" \o lane.id, lane.cards)

\* serializeArchive(archive)
serializeArchive(archive) == IF Len(archive) = 0 THEN "" ELSE SectionText("## Archive", archive)

RECURSIVE LaneParts(_, _)
LaneParts(lanes, i) ==
    IF i > Len(lanes) THEN << >>
    ELSE << serializeLane(lanes[i]) >> \o LaneParts(lanes, i + 1)

BoardParts(board, settingsBlock) ==
    << ensureKanbanFrontmatter(board.frontmatter) >>
    \o (IF board.headerContent # "" THEN << board.headerContent, "" >> ELSE << >>)
    \o LaneParts(board.lanes, 1)
    \o (IF Len(board.archive) > 0 THEN << serializeArchive(board.archive) >> ELSE << >>)
    \o (IF board.preSettingsContent # "" THEN << board.preSettingsContent, "" >> ELSE << >>)
    \o (IF settingsBlock # "" THEN << settingsBlock >> ELSE << >>)
    \o (IF board.footerContent # "" THEN << board.footerContent >> ELSE << >>)

\* serializeKanbanBoard(board)
serializeKanbanBoard(board) == Join(BoardParts(board, serializeSettings(board.settings)), NL)

(***************************************************************************)
(* The view: the board in memory, the file on disk, the plugin settings    *)
(***************************************************************************)
\* createEmptyBoard(), with the nonce of the call
createEmptyBoard(nonce) ==
    LET fresh == [nonce |-> nonce, base |-> 0]
        lane(title, k) == [id |-> generateId(fresh, "n", k), title |-> title,
                           cards |-> << >>, rawHeader |-> None]
    IN [lanes |-> << lane("To Do", 1), lane("In Progress", 2), lane("Done", 3) >>,
        archive |-> << >>,
        settings |-> << >>,
        frontmatter |-> "",
        headerContent |-> "",
        footerContent |-> "",
        preSettingsContent |-> ""]

\* DEFAULT_SETTINGS, the keys the model reads
DEFAULT_SETTINGS ==
    [parseNaturalDates |-> TRUE, hideTagsInTitle |-> FALSE, hideDateInTitle |-> FALSE]

SettingKey(k) ==
    CASE k = "parseNaturalDates" -> "parse-natural-dates"
      [] k = "hideTagsInTitle" -> "hide-tags-in-title"
      [] k = "hideDateInTitle" -> "hide-date-in-title"

\* KanbanView.getSetting(key) of a boolean key: the board's value when the settings
\* block gives one, the plugin's otherwise
getSetting(b, plugin, k) ==
    IF MetaHas(b.settings, SettingKey(k))
    THEN b.settings[MetaIndex(b.settings, SettingKey(k))].str \notin {"false", "null", "0", "\"\""}
    ELSE plugin[k]

RECURSIVE MissingTags(_, _, _)
MissingTags(tags, i, existing) ==
    IF i > Len(tags) THEN ""
    ELSE (IF SeqHas(existing, tags[i]) THEN "" ELSE " #" \o tags[i])
         \o MissingTags(tags, i + 1, existing)

\* KanbanView.reconstructCardTitle(newText, card)
reconstructCardTitle(newText, card, b, plugin) ==
    LET t1 == IF getSetting(b, plugin, "hideTagsInTitle") /\ Len(card.tags) > 0
              THEN newText \o MissingTags(card.tags, 1, parseTags(newText).tags)
              ELSE newText
    IN IF getSetting(b, plugin, "hideDateInTitle") /\ card.dueDate # None /\ ~Includes(t1, "@")
       THEN t1 \o " @" \o card.dueDate \o (IF card.dueTime # None THEN "T" \o card.dueTime ELSE "")
       ELSE t1

\* the reminder lead time shouldRemind takes for a card
\* (card.reminderTime || this.settings['reminder-time'] || '1h')
ReminderTimeOf(card, reminderTimeSetting) ==
    IF card.reminderTime # None THEN card.reminderTime
    ELSE IF reminderTimeSetting # "" THEN reminderTimeSetting
    ELSE "1h"

(***************************************************************************)
(* Base sync and the GPT Task Manager integration                          *)
(***************************************************************************)
\* A task file is modelled by its frontmatter, a sequence of [key, value] lines, and its
\* modification time.  The values of the model hold no colon, hash or quote, so
\* formatFrontmatterValue writes them and parseFrontmatter reads them unchanged.
FmLine(key, value) == [key |-> key, value |-> value]

FmHas(fm, key) == \E i \in 1..Len(fm) : fm[i].key = key

RECURSIVE FmGetFrom(_, _, _)
FmGetFrom(fm, key, i) ==
    IF i = 0 THEN None
    ELSE IF fm[i].key = key THEN fm[i].value
    ELSE FmGetFrom(fm, key, i - 1)

\* parseFrontmatter(content)[key]: a later line overwrites an earlier one; None is undefined
FmGet(fm, key) == FmGetFrom(fm, key, Len(fm))

RECURSIVE FmReplace(_, _, _, _)
\* lines.map(...).filter(...) of updateFrontmatterField
FmReplace(fm, field, value, i) ==
    IF i > Len(fm) THEN << >>
    ELSE (IF fm[i].key = field
          THEN (IF value = None THEN << >> ELSE << FmLine(field, value) >>)
          ELSE << fm[i] >>)
         \o FmReplace(fm, field, value, i + 1)

\* updateFrontmatterField(content, field, value)
updateFrontmatterField(fm, field, value) ==
    FmReplace(fm, field, value, 1)
    \o (IF ~FmHas(fm, field) /\ value # None THEN << FmLine(field, value) >> ELSE << >>)

RECURSIVE FirstKeyNoCase(_, _, _)
\* the first line new RegExp(`^(${statusField}:)\\s*.+$`, 'mi') matches, 0 when none does
FirstKeyNoCase(fm, field, i) ==
    IF i > Len(fm) THEN 0
    ELSE IF ToLower(fm[i].key) = ToLower(field) THEN i
    ELSE FirstKeyNoCase(fm, field, i + 1)

GptStatusWrite(fm, statusField, newStatus, at) ==
    IF at > 0 THEN [fm EXCEPT ![at].value = newStatus]
    ELSE Append(fm, FmLine(statusField, newStatus))

\* the content updateGptTaskStatus writes: the first status line, matched without regard
\* to case, keeps its key and takes the new value; without one a line is added
GptStatusUpdate(fm, statusField, newStatus) ==
    GptStatusWrite(fm, statusField, newStatus, FirstKeyNoCase(fm, statusField, 1))

\* a field of the BaseTask readBaseTask builds: ...frontmatter comes last in the object
\* literal, so a line named like the property wins over the configured field
TaskField(fm, property, field) ==
    IF FmHas(fm, property) THEN FmGet(fm, property) ELSE FmGet(fm, field)

\* Lane titles to status values, in insertion order
LaneStatus(lane, status) == [lane |-> lane, status |-> status]

GPT_TASK_MANAGER_LANE_MAPPING ==
    << LaneStatus("Backlog", "backlog"), LaneStatus("To Do", "todo"),
       LaneStatus("In Progress", "in-progress"), LaneStatus("Done", "done") >>

RECURSIVE MappedFrom(_, _, _)
MappedFrom(laneMapping, title, i) ==
    IF i > Len(laneMapping) THEN None
    ELSE IF laneMapping[i].lane = title THEN laneMapping[i].status
    ELSE MappedFrom(laneMapping, title, i + 1)

\* config.laneMapping[title], None when the lane has no mapping
MappedStatus(laneMapping, title) == MappedFrom(laneMapping, title, 1)

DEFAULT_BASE_SYNC_CONFIG ==
    [enabled |-> FALSE, statusField |-> "status", projectField |-> "project",
     laneMapping |-> << >>, conflictResolution |-> "prompt", createMissingTasks |-> FALSE]

\* the settings of the GPT Task Manager integration, with the values the settings tab
\* falls back to
GptConfig(enabled, updateStatusOnMove) ==
    [enabled |-> enabled, updateStatusOnMove |-> updateStatusOnMove,
     statusField |-> "Status", projectField |-> "Project",
     statusValues |-> [backlog |-> "backlog", todo |-> "todo",
                       inProgress |-> "in-progress", done |-> "done"]]

\* configureBaseSyncForGpt(config), also the base-sync entry of a board made from tasks
configureBaseSyncForGpt(config) ==
    [enabled |-> TRUE, statusField |-> config.statusField, projectField |-> config.projectField,
     laneMapping |-> GPT_TASK_MANAGER_LANE_MAPPING, conflictResolution |-> "prompt",
     createMissingTasks |-> FALSE]

\* a board without a base-sync entry in its settings
NoOverride == [present |-> FALSE]

BoardOverride(config) == [present |-> TRUE, config |-> config]

\* KanbanView.getBaseSyncConfig(): the board's entry when it has one, else the plugin's
getBaseSyncConfig(override, pluginConfig) ==
    IF override.present THEN override.config ELSE pluginConfig

\* laneToStatus(laneTitle, config)
StatusOfLower(laneLower, statusValues) ==
    IF laneLower = "backlog" \/ Includes(laneLower, "backlog") THEN statusValues.backlog
    ELSE IF laneLower = "to do" \/ laneLower = "todo" \/ Includes(laneLower, "todo")
    THEN statusValues.todo
    ELSE IF laneLower = "in progress" \/ Includes(laneLower, "progress")
            \/ Includes(laneLower, "doing")
    THEN statusValues.inProgress
    ELSE IF laneLower = "done" \/ Includes(laneLower, "done") \/ Includes(laneLower, "complete")
    THEN statusValues.done
    ELSE statusValues.backlog

laneToStatus(laneTitle, config) == StatusOfLower(ToLower(laneTitle), config.statusValues)

RECURSIVE LaneIndexNoCase(_, _, _)
\* board.lanes.find(l => l.title.toLowerCase() === laneTitle.toLowerCase()), 0 when none
LaneIndexNoCase(laneTitles, title, i) ==
    IF i > Len(laneTitles) THEN 0
    ELSE IF ToLower(laneTitles[i]) = ToLower(title) THEN i
    ELSE LaneIndexNoCase(laneTitles, title, i + 1)

RECURSIVE LaneForStatusFrom(_, _, _, _)
LaneForStatusFrom(laneMapping, status, laneTitles, i) ==
    IF i > Len(laneMapping) THEN 1
    ELSE IF ToLower(laneMapping[i].status) = ToLower(status)
            /\ LaneIndexNoCase(laneTitles, laneMapping[i].lane, 1) > 0
    THEN LaneIndexNoCase(laneTitles, laneMapping[i].lane, 1)
    ELSE LaneForStatusFrom(laneMapping, status, laneTitles, i + 1)

\* findLaneForTask(task, board): the index of the lane, the first lane by default
findLaneForTask(status, laneMapping, laneTitles) ==
    IF status = None THEN 1 ELSE LaneForStatusFrom(laneMapping, status, laneTitles, 1)

\* applyRemote of updateCardFromTask for a field whose values differ; choice is the
\* user's answer to the prompt: "local", "remote" or "skip"
ApplyRemote(conflictResolution, cardModTime, taskModTime, choice) ==
    IF conflictResolution = "last-write" THEN taskModTime > cardModTime
    ELSE IF conflictResolution = "prompt" THEN choice = "remote"
    ELSE conflictResolution = "remote"

\* one turn of the loop over fieldsToCheck: the card's value of the field afterwards
FieldAfter(local, remote, conflictResolution, cardModTime, taskModTime, choice) ==
    IF local # remote /\ local # None /\ remote # None
    THEN (IF ApplyRemote(conflictResolution, cardModTime, taskModTime, choice)
          THEN remote ELSE local)
    ELSE IF remote # None /\ local = None THEN remote
    ELSE local

(***************************************************************************)
(* Bounds and the documents the file starts from                           *)
(***************************************************************************)
\* the most parses (setViewData calls) of one behaviour
MaxParses == 2

\* the most title edits between two parses
MaxEdits == 1

\* the clock's date: Wednesday 2025-01-15
Today == [y |-> 2025, m |-> 1, d |-> 15]

\* the texts the user types into a card's title
NewTitles == { "renamed", "review %% kanban:settings" }

\* a settings block as the serializer writes it
BLOCK == serializeSettings(<< StrEntry("show-checkboxes", "true") >>)

FM == "---\nkanban-plugin: basic\n---\n\n"

Documents ==
    { \* a board as the serializer writes it
      FM \o "## Todo ^l1\n\n- [ ] write report ^c1\n- [x] file taxes ^c2\n",
      \* the same with a settings block
      FM \o "## Todo ^l1\n\n- [ ] write report ^c1\n" \o BLOCK,
      \* a hand-written board: no frontmatter, no identifiers, a natural-language date
      "## Todo\n\n- [ ] call tomorrow\n",
      "## Todo ^l1\n- [ ] water plants next friday ^c1\n- [ ] pay #bills @2025-02-01 ^c2\n",
      \* content blocks: subtasks, a note, a blank separator, opaque indented text
      "## Todo ^l1\n\n- [ ] trip ^c1\n  - [x] book\n\n  > bring map\n  packing list\n",
      \* a content block under a card linked to a note file
      "## Todo ^l1\n\n- [ ] trip [note::trip.md] ^c1\n  - [x] book\n  > bring map\n",
      \* a blank line between two subtasks, then the next card
      "## Todo ^l1\n\n- [ ] trip ^c1\n  - [ ] book\n\n  - [x] pack\n- [ ] rest ^c2\n",
      "## Todo\n- [x] trip\n\t- [ ] book\n\n    - [ ] pack\n- [ ] rest\n  - [ ] sleep\n",
      \* bracketed recurrence and reminder tags
      "## Todo ^l1\n\n- [ ] standup @2025-01-20 [recur::weekly] ^c1\n",
      "## Todo ^l1\n\n- [ ] rent @2025-01-20T09:00 [remind::2d] ^c1\n",
      "## Todo ^l1\n\n- [ ] backup every 2 weeks ^c1\n",
      \* text between the last card and the settings block
      "## Todo ^l1\n\n- [ ] write report ^c1\n\nLinks below.\n" \o BLOCK \o "\nThe end.\n",
      "## Todo ^l1\n\n- [ ] write report ^c1\n\nSee also\n- [docs](u)\n" \o BLOCK,
      \* a settings block whose payload is not JSON: between two lanes, after the only
      \* lane, before the only lane
      "## Todo ^l1\n\n- [ ] a ^c1\n\n" \o SETTINGS_OPEN \o "\n" \o FENCE
          \o "json\n{\n  \"show-checkboxes\": tru\n}\n" \o FENCE \o "\n%%\n\n## Done ^l2\n\n- [x] b ^c2\n",
      FM \o "## Todo ^l1\n\n- [ ] a ^c1\n\n" \o SETTINGS_OPEN \o "\n" \o FENCE
          \o "\n{oops\n" \o FENCE \o "\n%%\n",
      SETTINGS_OPEN \o "\n" \o FENCE \o "json\n{\"lane-width\": }\n" \o FENCE
          \o "\n%%\n\n## Todo ^l1\n- [ ] a ^c1\n  - [ ] s\n",
      \* two lanes, an archive and a settings block
      FM \o "# Plan\n\n## Todo ^l1\n\n- [ ] a ^c1\n\n## Done ^l2\n\n## Archive\n\n- [x] old ^c9\n" \o BLOCK,
      \* no lane: free text, with and without a settings block
      "Just notes.\n",
      "Just notes.\n" \o BLOCK,
      "---\ntags: x\n---\n" \o SliceFrom(BLOCK, 2),
      \* frontmatter without the marker key, and with the marker as a value
      "---\ntags: x\n---\n\n## Todo ^l1\n\n- [ ] a ^c1\n",
      "---\ntitle: kanban-plugin notes\n---\n\n## Todo ^l1\n\n- [ ] a ^c1\n",
      \* an Archive section before a lane and a second one after it
      "## Archive\n\n- [x] old ^c8\n\n## Todo ^l1\n\n- [ ] a ^c1\n\n## Archive\n\n- [x] older ^c9\n",
      \* a card line copied by hand, identifier included, into another lane
      "## Todo ^l1\n\n- [ ] a ^c1\n\n## Done ^l2\n\n- [x] a ^c1\n" }

(***************************************************************************)
(* State                                                                   *)
(***************************************************************************)
VARIABLES
    doc,        \* the text of the file
    board,      \* KanbanView.board
    plugin,     \* KanbanPlugin.settings
    nonce,      \* the parses done so far
    edits,      \* the title edits since the last parse
    lastOp,     \* the last handler that ran: "init", "open", "save", "edit"
    opened,     \* history: the text the last parse read, its board, the setting then
    docFrom,    \* history: how doc was written since the last parse: "file", "clean", "edited"
    prev,       \* history: at the last parse, the board before it and how its text was written
    edit,       \* history: the last title edit
    referenceDate,  \* the date handed to parseNaturalDate and getNextOccurrence
    naturalText,         \* the text last handed to parseNaturalDate
    naturalDate,        \* what parseNaturalDate returned for it
    recurrenceRule,        \* the rule last handed to getNextOccurrence
    occurrence,  \* what getNextOccurrence returned for it
    syncCard,   \* the card of the board that is linked to a task file, and its lane
    taskFile,   \* the task file of the vault: its frontmatter and modification time
    syncSettings,  \* the base-sync and gpt-task-manager settings, and the board's entry
    clock,      \* Date.now()
    edited,     \* history: the clock at the card's last title edit
    syncOp,     \* history: the last handler of the sync that ran
    wipLane,    \* the titles of the cards of one lane of the board on screen
    wipSettings,  \* the settings renderLane and the lane menu read
    wipView,    \* what the last render of the lane attached: the add-card controls
    wipOp,      \* history: the last add-card action and the lane it found
    remFile,    \* the text of the kanban file of the vault that checkReminders reads
    remNow,     \* new Date(), in minutes since 00:00 of Today
    remSettings,  \* enable-reminders and reminder-time of the plugin's settings
    notifiedCards,  \* KanbanPlugin.notifiedCards
    remChecks,  \* the runs of checkReminders so far
    remShown,   \* history: the cards showReminder was called for, in order
    remChanged, \* history: the reminder settings were changed since the plugin loaded
    runBoard,   \* KanbanView.board of a view with Base sync
    baseTasks,  \* the task files queryBaseTasks finds, in its order
    runConfig,  \* the view's BaseSyncConfig
    syncInProgress,  \* BaseSyncService.syncInProgress of the view's service
    runs,       \* the syncFromBase calls that have begun and not returned
    syncIntervalId,  \* KanbanView.syncIntervalId: 0 is null, 1 a scheduled interval timer
    viewOpen,   \* the view has not been closed
    runClock,   \* Date.now()
    begun,      \* the calls of performBackgroundSync so far
    reloads,    \* the reloads of the board so far
    runOp       \* history: the last call of syncFromBase and what it returned

viewVars == << doc, board, plugin, nonce, edits, lastOp, opened, docFrom, prev, edit >>

dateVars == << referenceDate, naturalText, naturalDate, recurrenceRule, occurrence >>

syncVars == << syncCard, taskFile, syncSettings, clock, edited, syncOp >>

laneVars == << wipLane, wipSettings, wipView, wipOp >>

reminderVars ==
    << remFile, remNow, remSettings, notifiedCards, remChecks, remShown, remChanged >>

runVars ==
    << runBoard, baseTasks, runConfig, syncInProgress, runs, syncIntervalId, viewOpen,
       runClock, begun, reloads, runOp >>

vars == << viewVars, dateVars, syncVars, laneVars, reminderVars, runVars >>

\* what the handlers of each part of the program leave alone
notView == << dateVars, syncVars, laneVars, reminderVars, runVars >>

notDate == << viewVars, syncVars, laneVars, reminderVars, runVars >>

notSync == << viewVars, dateVars, laneVars, reminderVars, runVars >>

notLane == << viewVars, dateVars, syncVars, reminderVars, runVars >>

notReminder == << viewVars, dateVars, syncVars, laneVars, runVars >>

notRun == << viewVars, dateVars, syncVars, laneVars, reminderVars >>

\* no lane-specific entry in board.settings['lane-configs']
NoWipLimit == [limit |-> 0, blockExceeded |-> FALSE, set |-> FALSE]

\* WipLimitConfig as the WIP limit dialog saves it
WipLimitConfig(limit, blockExceeded) ==
    [limit |-> limit, blockExceeded |-> blockExceeded, set |-> TRUE]

\* DEFAULT_SETTINGS: default-wip-limit 0, wip-block-exceeded false, show-card-composer
\* true, template-path ''
WipDefaults ==
    [defaultLimit |-> 0, blockExceeded |-> FALSE, showComposer |-> TRUE,
     templatePath |-> None, laneConfig |-> NoWipLimit]

NoAdd == [via |-> "none", count |-> 0, limit |-> 0, blockExceeded |-> FALSE]

\* no lane is on screen
LaneIdle ==
    /\ wipLane = << >>
    /\ wipSettings = WipDefaults
    /\ wipView = [canAddCards |-> TRUE, showComposer |-> TRUE]
    /\ wipOp = NoAdd

\* the plugin's reminder check has not run
ReminderIdle ==
    /\ remFile = None
    /\ remNow = 0
    /\ remSettings = [enabled |-> FALSE, reminderTime |-> "1h"]
    /\ notifiedCards = { }
    /\ remChecks = 0
    /\ remShown = << >>
    /\ remChanged = FALSE

NoCall == [inProgress |-> FALSE, outcome |-> "none", created |-> 0, updated |-> 0]

\* no view with Base sync is open
RunIdle ==
    /\ runBoard = << >>
    /\ baseTasks = << >>
    /\ runConfig = << >>
    /\ syncInProgress = FALSE
    /\ runs = << >>
    /\ syncIntervalId = 0
    /\ viewOpen = FALSE
    /\ runClock = 0
    /\ begun = 0
    /\ reloads = 0
    /\ runOp = NoCall

OthersIdle == LaneIdle /\ ReminderIdle /\ RunIdle

\* the lanes of the board the linked card lives on
SyncLanes == << "Backlog", "Doing", "Done" >>

TASK_PATH == "Tasks/task.md"

\* a card of the board with the fields the sync reads and writes; baseSyncTime 0 is
\* undefined, baseTaskPath None is undefined
SyncCardOf(lane, title, project, baseTaskPath, baseSyncTime) ==
    [lane |-> lane, title |-> title, project |-> project,
     baseTaskPath |-> baseTaskPath, baseSyncTime |-> baseSyncTime]

NoTaskFile == [exists |-> FALSE, fm |-> << >>, mtime |-> 0]

TaskFileOf(fm, mtime) == [exists |-> TRUE, fm |-> fm, mtime |-> mtime]

NoSyncOp ==
    [op |-> "none", from |-> 0, to |-> 0, linked |-> FALSE, local |-> None, remote |-> None,
     taskModified |-> 0, cardEdited |-> 0]

\* no board is linked to task files
SyncIdle ==
    /\ syncCard = SyncCardOf(0, None, None, None, 0)
    /\ taskFile = NoTaskFile
    /\ syncSettings = [base |-> DEFAULT_BASE_SYNC_CONFIG, gpt |-> GptConfig(FALSE, FALSE),
                       board |-> NoOverride]
    /\ clock = 0
    /\ edited = 0
    /\ syncOp = NoSyncOp


NoRule == Rule("none", 0, << >>, 0)

\* no date function has been called
DateIdle ==
    /\ naturalText = None
    /\ naturalDate = NoDate
    /\ recurrenceRule = NoRule
    /\ occurrence = referenceDate

NoEdit == [lane |-> 0, card |-> 0, id |-> None, newText |-> None]

Init ==
    /\ doc \in Documents
    /\ board = createEmptyBoard(0)
    /\ plugin = DEFAULT_SETTINGS
    /\ nonce = 0
    /\ edits = 0
    /\ lastOp = "init"
    /\ opened = [text |-> None, board |-> createEmptyBoard(0), parseNaturalDates |-> TRUE]
    /\ docFrom = "file"
    /\ prev = [board |-> createEmptyBoard(0), how |-> "none"]
    /\ edit = NoEdit
    /\ referenceDate = Today
    /\ DateIdle
    /\ SyncIdle
    /\ OthersIdle

\* KanbanView.setViewData(data, true), Obsidian handing the file's text to the view
setViewData ==
    /\ nonce < MaxParses
    /\ nonce' = nonce + 1
    /\ board' = IF Trim(doc) # "" THEN parseKanbanBoard(doc, Today, nonce')
                ELSE createEmptyBoard(nonce')
    /\ opened' = [text |-> doc, board |-> board',
                  parseNaturalDates |-> plugin.parseNaturalDates]
    /\ prev' = [board |-> board, how |-> IF nonce = 0 THEN "none" ELSE docFrom]
    /\ docFrom' = "file"
    /\ edits' = 0
    /\ lastOp' = "open"
    /\ UNCHANGED << doc, plugin, edit >>
    /\ UNCHANGED notView

\* KanbanView.getViewData(), Obsidian saving the view to the file
getViewData ==
    /\ nonce > 0
    /\ doc' = serializeKanbanBoard(board)
    /\ docFrom' = IF docFrom \in {"edited", "dated"} THEN docFrom ELSE "clean"
    /\ lastOp' = "save"
    /\ UNCHANGED << board, plugin, nonce, edits, opened, prev, edit >>
    /\ UNCHANGED notView

\* the blur handler of a card's title: the title is rebuilt and the board is saved
EditTitle(l, c, newText) ==
    /\ nonce > 0
    /\ edits < MaxEdits
    /\ l \in 1..Len(board.lanes)
    /\ c \in 1..Len(board.lanes[l].cards)
    /\ LET card == board.lanes[l].cards[c]
       IN /\ board' = [board EXCEPT !.lanes[l].cards[c].title =
                                       reconstructCardTitle(newText, card, board, plugin)]
          /\ edit' = [lane |-> l, card |-> c, id |-> card.id, newText |-> newText]
    /\ doc' = serializeKanbanBoard(board')
    /\ edits' = edits + 1
    /\ docFrom' = "edited"
    /\ lastOp' = "edit"
    /\ UNCHANGED << plugin, nonce, opened, prev >>
    /\ UNCHANGED notView

\* /^\d{4}-\d{2}-\d{2}$/, the test of the "Set due date" prompt
IsoDateInput(value) ==
    /\ Len(value) = 10
    /\ \A i \in {1, 2, 3, 4, 6, 7, 9, 10} : IsDigit(Ch(value, i))
    /\ Ch(value, 5) = "-"
    /\ Ch(value, 8) = "-"

\* what the user types into the "Set due date" prompt
DueInputs == {"2025-03-01", "soon", None}

\* KanbanView.setCardDueDate with the prompt submitted: a YYYY-MM-DD value becomes the
\* card's due date, an empty value clears it, anything else leaves it; the board is saved
setCardDueDate(l, c, value) ==
    /\ nonce > 0
    /\ edits < MaxEdits
    /\ l \in 1..Len(board.lanes)
    /\ c \in 1..Len(board.lanes[l].cards)
    /\ board' = [board EXCEPT !.lanes[l].cards[c].dueDate =
                    IF IsoDateInput(value) THEN value
                    ELSE IF value = None THEN None ELSE @]
    /\ edit' = [lane |-> l, card |-> c, id |-> board.lanes[l].cards[c].id, newText |-> value]
    /\ doc' = serializeKanbanBoard(board')
    /\ edits' = edits + 1
    /\ docFrom' = "dated"
    /\ lastOp' = "due"
    /\ UNCHANGED << plugin, nonce, opened, prev >>
    /\ UNCHANGED notView

\* a toggle of the settings tab
SetSetting(k) ==
    /\ plugin' = [plugin EXCEPT ![k] = ~@]
    /\ UNCHANGED << doc, board, nonce, edits, lastOp, opened, docFrom, prev, edit >>
    /\ UNCHANGED notView

Next ==
    \/ setViewData
    \/ getViewData
    \/ \E l \in 1..2, c \in 1..2, t \in NewTitles : EditTitle(l, c, t)
    \/ \E l \in 1..2, c \in 1..2, v \in DueInputs : setCardDueDate(l, c, v)
    \/ \E k \in DOMAIN DEFAULT_SETTINGS : SetSetting(k)

Spec == Init /\ [][Next]_vars

(***************************************************************************)
(* The date functions on their own                                         *)
(***************************************************************************)
\* the first reference date and the number of consecutive days drawn from it:
\* 2024-12-01 .. 2025-03-31, every day of the month and a change of year
RefStart == [y |-> 2024, m |-> 12, d |-> 1]

RefDays == 121

ReferenceDates == { AddDays(RefStart, n) : n \in 0..(RefDays - 1) }

Phrases ==
    { "this " \o WeekDays[k] : k \in 1..7 } \cup { "next " \o WeekDays[k] : k \in 1..7 }
    \cup { "next month", "plan trip next month", "Next Monday" }

Rules ==
    { Rule("weekly", 0, << "monday", "friday" >>, 0),
      Rule("weekly", 0, << "friday", "monday" >>, 0),
      Rule("weekly", 0, << "sunday" >>, 0),
      Rule("weekly", 0, << "wednesday" >>, 0),
      Rule("weekly", 2, << "saturday", "sunday" >>, 0),
      Rule("weekly", 1, << >>, 0),
      Rule("monthly", 1, << >>, 0),
      Rule("monthly", 1, << >>, 31),
      Rule("monthly", 1, << >>, 15),
      Rule("monthly", 2, << >>, 30),
      Rule("monthly", 0, << >>, 1),
      Rule("daily", 1, << >>, 0),
      Rule("yearly", 1, << >>, 0) }

\* no view is open
ViewIdle ==
    /\ doc = ""
    /\ board = createEmptyBoard(0)
    /\ plugin = DEFAULT_SETTINGS
    /\ nonce = 0
    /\ edits = 0
    /\ lastOp = "init"
    /\ opened = [text |-> None, board |-> createEmptyBoard(0), parseNaturalDates |-> TRUE]
    /\ docFrom = "file"
    /\ prev = [board |-> createEmptyBoard(0), how |-> "none"]
    /\ edit = NoEdit

DateInit ==
    /\ referenceDate \in ReferenceDates
    /\ DateIdle
    /\ ViewIdle
    /\ SyncIdle
    /\ OthersIdle

\* parseNaturalDate(text, referenceDate); the date functions keep no state, so a
\* behaviour makes one call
ResolvePhrase(text) ==
    /\ DateIdle
    /\ naturalText' = text
    /\ naturalDate' = parseNaturalDate(text, referenceDate)
    /\ UNCHANGED << referenceDate, recurrenceRule, occurrence >>
    /\ UNCHANGED notDate

\* getNextOccurrence(pattern, fromDate)
NextOccurrence(rule) ==
    /\ DateIdle
    /\ recurrenceRule' = rule
    /\ occurrence' = getNextOccurrence(rule, referenceDate)
    /\ UNCHANGED << referenceDate, naturalText, naturalDate >>
    /\ UNCHANGED notDate

DateNext ==
    \/ \E text \in Phrases : ResolvePhrase(text)
    \/ \E rule \in Rules : NextOccurrence(rule)

DateSpec == DateInit /\ [][DateNext]_vars

(***************************************************************************)
(* A board whose card is linked to a task file                             *)
(***************************************************************************)
\* the last value of the clock at which a handler may run
MaxClock == 3

\* a base-sync configuration entered by hand
ManualConfig(conflictResolution, createMissingTasks) ==
    [enabled |-> TRUE, statusField |-> "status", projectField |-> "project",
     laneMapping |-> << LaneStatus("Backlog", "open"), LaneStatus("Doing", "active"),
                        LaneStatus("Done", "closed") >>,
     conflictResolution |-> conflictResolution, createMissingTasks |-> createMissingTasks]

\* the settings loaded when the plugin starts
StartSettings ==
    { [base |-> b, gpt |-> GptConfig(e, u), board |-> o] :
        b \in { DEFAULT_BASE_SYNC_CONFIG, ManualConfig("last-write", FALSE),
                ManualConfig("local", TRUE) },
        e \in BOOLEAN,
        u \in BOOLEAN,
        o \in { NoOverride, BoardOverride(configureBaseSyncForGpt(GptConfig(TRUE, TRUE))) } }

\* the task files of the vault when the plugin starts
TaskFiles ==
    { TaskFileOf(<< FmLine("title", "Write report"), FmLine("status", "open") >>, 0),
      TaskFileOf(<< FmLine("title", "Report v2"), FmLine("Status", "backlog"),
                    FmLine("project", "alpha") >>, 0) }

CardTitles == { "Write report", "Draft report" }

SyncInit ==
    /\ ViewIdle
    /\ referenceDate = Today
    /\ DateIdle
    /\ OthersIdle
    /\ syncSettings \in StartSettings
    /\ taskFile \in TaskFiles \cup { NoTaskFile }
    /\ syncCard \in { SyncCardOf(lane, "Write report", None,
                                 IF taskFile.exists THEN TASK_PATH ELSE None, 0) :
                        lane \in 1..2 }
    /\ clock = 1
    /\ edited = 0
    /\ syncOp = NoSyncOp

\* updateGptTaskStatus(app, taskPath, newStatus, config): the file afterwards
updateGptTaskStatus(file, newStatus, config, now) ==
    IF ~file.exists THEN file
    ELSE [file EXCEPT !.fm = GptStatusUpdate(@, config.statusField, newStatus), !.mtime = now]

\* KanbanPlugin.onCardMovedToLane(card, newLaneTitle): the task file afterwards
onCardMovedToLane(card, newLaneTitle, gptConfig, file, now) ==
    IF ~gptConfig.enabled \/ ~gptConfig.updateStatusOnMove THEN file
    ELSE IF card.baseTaskPath = None THEN file
    ELSE updateGptTaskStatus(file, laneToStatus(newLaneTitle, gptConfig), gptConfig, now)

\* BaseSyncService.updateTaskField(taskPath, field, value): the file afterwards
updateTaskField(file, field, value, now) ==
    IF ~file.exists THEN file
    ELSE IF updateFrontmatterField(file.fm, field, value) # file.fm
    THEN [file EXCEPT !.fm = updateFrontmatterField(@, field, value), !.mtime = now]
    ELSE file

\* BaseSyncService.onCardMoveToLane(card, newLane): the file afterwards
onCardMoveToLane(card, newLaneTitle, config, file, now) ==
    IF ~config.enabled \/ card.baseTaskPath = None THEN file
    ELSE IF MappedStatus(config.laneMapping, newLaneTitle) = None THEN file
    ELSE updateTaskField(file, config.statusField,
                         MappedStatus(config.laneMapping, newLaneTitle), now)

\* BaseSyncService.createBaseTask(title, metadata, lane): the file it creates
createBaseTask(title, project, laneTitle, config, now) ==
    TaskFileOf(<< FmLine("title", IF title = None THEN "Untitled Task" ELSE title) >>
               \o (IF MappedStatus(config.laneMapping, laneTitle) # None
                   THEN << FmLine(config.statusField, MappedStatus(config.laneMapping, laneTitle)) >>
                   ELSE << >>)
               \o (IF project # None THEN << FmLine(config.projectField, project) >> ELSE << >>),
               now)

\* the move the handler has just made, for the history
MoveOp(op, from, to, linked) ==
    [NoSyncOp EXCEPT !.op = op, !.from = from, !.to = to, !.linked = linked]

\* the onEnd handler of setupCardSortable: the card is dropped into lane to
DragCard(to) ==
    /\ clock <= MaxClock
    /\ syncCard.lane > 0
    /\ syncCard' = [syncCard EXCEPT !.lane = to]
    /\ taskFile' = IF to # syncCard.lane
                   THEN onCardMovedToLane(syncCard, SyncLanes[to], syncSettings.gpt, taskFile, clock)
                   ELSE taskFile
    /\ clock' = clock + 1
    /\ syncOp' = MoveOp("drag", syncCard.lane, to, syncCard.baseTaskPath # None)
    /\ UNCHANGED << syncSettings, edited >>
    /\ UNCHANGED notSync

\* syncCardStatusToBase(card, lane) on a card without a task: the card and the file afterwards
CreateMissing(card, laneTitle, config, file, now) ==
    IF config.createMissingTasks
    THEN [card |-> [card EXCEPT !.baseTaskPath = TASK_PATH, !.baseSyncTime = now],
          file |-> createBaseTask(card.title, card.project, laneTitle, config, now)]
    ELSE [card |-> card, file |-> file]

\* syncCardStatusToBase(card, lane): the card and the file afterwards
syncCardStatusToBase(card, laneTitle, config, file, now) ==
    IF ~config.enabled THEN [card |-> card, file |-> file]
    ELSE IF card.baseTaskPath # None
    THEN [card |-> card, file |-> onCardMoveToLane(card, laneTitle, config, file, now)]
    ELSE CreateMissing(card, laneTitle, config, file, now)

MovedCard(to, after) ==
    /\ syncCard' = after.card
    /\ taskFile' = after.file

\* "Move to..." of the card menu: moveCard(card, lane, targetLane)
MenuMove(to) ==
    /\ clock <= MaxClock
    /\ syncCard.lane > 0
    /\ to # syncCard.lane
    /\ MovedCard(to, syncCardStatusToBase([syncCard EXCEPT !.lane = to], SyncLanes[to],
                                          getBaseSyncConfig(syncSettings.board, syncSettings.base),
                                          taskFile, clock))
    /\ clock' = clock + 1
    /\ syncOp' = MoveOp("menu", syncCard.lane, to, syncCard.baseTaskPath # None)
    /\ UNCHANGED << syncSettings, edited >>
    /\ UNCHANGED notSync

\* the blur handler of the card's title, on a card without tags, date or metadata
EditCardTitle(newTitle) ==
    /\ clock <= MaxClock
    /\ syncCard.lane > 0
    /\ newTitle # syncCard.title
    /\ syncCard' = [syncCard EXCEPT !.title = newTitle]
    /\ edited' = clock
    /\ clock' = clock + 1
    /\ syncOp' = [NoSyncOp EXCEPT !.op = "edit"]
    /\ UNCHANGED << taskFile, syncSettings >>
    /\ UNCHANGED notSync

\* the user changes a line of the task file in the vault: file.stat.mtime moves on
ModifyTask(key, value) ==
    /\ clock <= MaxClock
    /\ taskFile.exists
    /\ FmGet(taskFile.fm, key) # value
    /\ taskFile' = [taskFile EXCEPT !.fm = updateFrontmatterField(@, key, value), !.mtime = clock]
    /\ clock' = clock + 1
    /\ syncOp' = [NoSyncOp EXCEPT !.op = "modify"]
    /\ UNCHANGED << syncCard, syncSettings, edited >>
    /\ UNCHANGED notSync

\* task.title of readBaseTask: frontmatter.title || file.basename
TaskTitle(fm) == IF FmGet(fm, "title") # None THEN FmGet(fm, "title") ELSE "task"

\* updateCardFromTask(card, task, board, onConflict): the card afterwards
updateCardFromTask(card, fm, mtime, config, now, titleChoice, projectChoice) ==
    [lane |-> findLaneForTask(TaskField(fm, "status", config.statusField),
                              config.laneMapping, SyncLanes),
     title |-> FieldAfter(card.title, TaskTitle(fm), config.conflictResolution,
                          card.baseSyncTime, mtime, titleChoice),
     project |-> FieldAfter(card.project, TaskField(fm, "project", config.projectField),
                            config.conflictResolution, card.baseSyncTime, mtime, projectChoice),
     baseTaskPath |-> card.baseTaskPath,
     baseSyncTime |-> now]

Choices == { "local", "remote", "skip" }

\* performBackgroundSync() -> syncFromBase(board, onConflict): the task of the folder is
\* the one the card is linked to
SyncWith(config, titleChoice, projectChoice) ==
    /\ config.enabled
    /\ syncCard' = updateCardFromTask(syncCard, taskFile.fm, taskFile.mtime, config, clock,
                                      titleChoice, projectChoice)
    /\ syncOp' = [NoSyncOp EXCEPT !.op = "sync", !.from = syncCard.lane,
                                  !.local = syncCard.title, !.remote = TaskTitle(taskFile.fm),
                                  !.taskModified = taskFile.mtime, !.cardEdited = edited]

SyncFromBase(titleChoice, projectChoice) ==
    /\ clock <= MaxClock
    /\ taskFile.exists
    /\ syncCard.baseTaskPath = TASK_PATH
    /\ SyncWith(getBaseSyncConfig(syncSettings.board, syncSettings.base), titleChoice, projectChoice)
    /\ clock' = clock + 1
    /\ UNCHANGED << taskFile, syncSettings, edited >>
    /\ UNCHANGED notSync

\* a change in the settings tab; like every handler it takes a tick of the clock
SettingsChanged ==
    /\ clock <= MaxClock
    /\ syncCard.lane > 0
    /\ clock' = clock + 1
    /\ syncOp' = [NoSyncOp EXCEPT !.op = "setting"]
    /\ UNCHANGED << syncCard, taskFile, edited >>
    /\ UNCHANGED notSync

\* the toggle "Enable Base sync" of the settings tab
ToggleBaseSync ==
    /\ syncSettings' = [syncSettings EXCEPT !.base.enabled = ~@]
    /\ SettingsChanged

\* the toggle "Enable GPT Task Manager integration": switching it on configures Base sync
ToggleGptIntegration ==
    /\ syncSettings' =
         IF syncSettings.gpt.enabled
         THEN [syncSettings EXCEPT !.gpt.enabled = FALSE]
         ELSE [syncSettings EXCEPT !.gpt.enabled = TRUE,
                                   !.base.enabled = TRUE,
                                   !.base.statusField = syncSettings.gpt.statusField,
                                   !.base.projectField = syncSettings.gpt.projectField,
                                   !.base.laneMapping = GPT_TASK_MANAGER_LANE_MAPPING]
    /\ SettingsChanged

\* the toggle "Update status on card move", shown while the integration is enabled
ToggleUpdateStatusOnMove ==
    /\ syncSettings.gpt.enabled
    /\ syncSettings' = [syncSettings EXCEPT !.gpt.updateStatusOnMove = ~@]
    /\ SettingsChanged

\* the dropdown "Conflict resolution", shown while Base sync is enabled
SetConflictResolution(value) ==
    /\ syncSettings.base.enabled
    /\ value # syncSettings.base.conflictResolution
    /\ syncSettings' = [syncSettings EXCEPT !.base.conflictResolution = value]
    /\ SettingsChanged

SyncNext ==
    \/ \E to \in 1..Len(SyncLanes) : DragCard(to)
    \/ \E to \in 1..Len(SyncLanes) : MenuMove(to)
    \/ \E newTitle \in CardTitles : EditCardTitle(newTitle)
    \/ \E value \in { "Report v2", "Report v3" } : ModifyTask("title", value)
    \/ \E titleChoice \in Choices, projectChoice \in Choices : SyncFromBase(titleChoice, projectChoice)
    \/ ToggleBaseSync
    \/ ToggleGptIntegration
    \/ ToggleUpdateStatusOnMove
    \/ \E value \in { "local", "remote", "last-write", "prompt" } : SetConflictResolution(value)

SyncSpec == SyncInit /\ [][SyncNext]_vars

(***************************************************************************)
(* WIP limits and the add-card actions of a lane                           *)
(***************************************************************************)

\* the cards one lane may hold in the model
MaxLaneCards == 3

\* the limits typed into the settings tab and the WIP limit dialog
WipLimits == 0..1

\* KanbanView.getLaneWipConfig(lane): the lane's own entry of lane-configs if it has a
\* wipLimit, the plugin's defaults otherwise (warnAt only colours the lane)
getLaneWipConfig(settings) ==
    IF settings.laneConfig.set
    THEN [limit |-> settings.laneConfig.limit,
          blockExceeded |-> settings.laneConfig.blockExceeded]
    ELSE [limit |-> settings.defaultLimit, blockExceeded |-> settings.blockExceeded]

\* isOverLimit of renderLane
IsOverLimit(cards, wipConfig) == wipConfig.limit > 0 /\ Len(cards) > wipConfig.limit

\* canAddCards of renderLane
CanAddCards(cards, wipConfig) == ~wipConfig.blockExceeded \/ ~IsOverLimit(cards, wipConfig)

\* KanbanView.renderLane: the add-card controls it attaches to the lane
renderLane(cards, settings) ==
    [canAddCards |-> CanAddCards(cards, getLaneWipConfig(settings)),
     showComposer |-> settings.showComposer]

\* the record of an add-card action: the lane and the WIP configuration it found
AddVia(via, cards, wipConfig) ==
    [via |-> via, count |-> Len(cards), limit |-> wipConfig.limit,
     blockExceeded |-> wipConfig.blockExceeded]

WipInit ==
    /\ ViewIdle
    /\ referenceDate = Today
    /\ DateIdle
    /\ SyncIdle
    /\ ReminderIdle
    /\ RunIdle
    /\ wipLane \in { << >>, << "a" >> }
    /\ wipSettings = WipDefaults
    /\ wipView = renderLane(wipLane, wipSettings)
    /\ wipOp = NoAdd

\* lane.cards.push(newCard); requestSave(); render(): the tail of every add-card handler
PushCard(via, title) ==
    /\ Len(wipLane) < MaxLaneCards
    /\ wipLane' = Append(wipLane, title)
    /\ wipView' = renderLane(wipLane', wipSettings)
    /\ wipOp' = AddVia(via, wipLane, getLaneWipConfig(wipSettings))
    /\ UNCHANGED wipSettings
    /\ UNCHANGED notLane

\* Enter or the plus button of the quick-add composer, which renderCardComposer wires only
\* when canAddCards held at the render
addCardFromComposer(text) ==
    /\ wipView.showComposer
    /\ wipView.canAddCards
    /\ PushCard("composer", text)

\* the "+ Add card" button, rendered when the composer is off and wired when canAddCards
AddCardButton ==
    /\ ~wipView.showComposer
    /\ wipView.canAddCards
    /\ PushCard("button", "New card")

\* the lane menu's "Add card"
MenuAddCard == PushCard("menu", "New card")

\* the lane menu's "Add card from template", offered when template-path is set
addCardFromTemplate ==
    /\ wipSettings.templatePath # None
    /\ PushCard("template", "From template")

\* KanbanView.deleteCard(card, lane)
deleteCard(c) ==
    /\ c \in 1..Len(wipLane)
    /\ wipLane' = SubSeq(wipLane, 1, c - 1) \o SubSeq(wipLane, c + 1, Len(wipLane))
    /\ wipView' = renderLane(wipLane', wipSettings)
    /\ UNCHANGED << wipSettings, wipOp >>
    /\ UNCHANGED notLane

\* a field of the settings tab: the plugin's settings are saved, no view is rendered
SettingsTab(key, value) ==
    /\ wipSettings[key] # value
    /\ wipSettings' = [wipSettings EXCEPT ![key] = value]
    /\ UNCHANGED << wipLane, wipView, wipOp >>
    /\ UNCHANGED notLane

\* "Default WIP limit"
SetDefaultWipLimit(limit) == SettingsTab("defaultLimit", limit)

\* "Block when exceeded"
SetBlockWhenExceeded(value) == SettingsTab("blockExceeded", value)

\* "Show card composer"
SetShowComposer(value) == SettingsTab("showComposer", value)

\* "Template path"
SetTemplatePath(path) == SettingsTab("templatePath", path)

\* KanbanView.showWipLimitModal(lane) with the dialog saved: the lane's entry is written
\* and the board is rendered
showWipLimitModal(config) ==
    /\ wipSettings' = [wipSettings EXCEPT !.laneConfig = config]
    /\ wipView' = renderLane(wipLane, wipSettings')
    /\ UNCHANGED << wipLane, wipOp >>
    /\ UNCHANGED notLane

WipNext ==
    \/ addCardFromComposer("call")
    \/ AddCardButton
    \/ MenuAddCard
    \/ addCardFromTemplate
    \/ \E c \in 1..MaxLaneCards : deleteCard(c)
    \/ \E limit \in WipLimits : SetDefaultWipLimit(limit)
    \/ \E value \in BOOLEAN : SetBlockWhenExceeded(value)
    \/ \E value \in BOOLEAN : SetShowComposer(value)
    \/ \E path \in { None, "Templates/card.md" } : SetTemplatePath(path)
    \/ \E limit \in WipLimits, value \in BOOLEAN : showWipLimitModal(WipLimitConfig(limit, value))

WipSpec == WipInit /\ [][WipNext]_vars

(***************************************************************************)
(* Reminders                                                               *)
(***************************************************************************)

\* the runs of checkReminders in one behaviour
MaxChecks == 4

\* parseReminderOffset(reminderTime), in minutes:
\* /^(\d+)\s*(m|min|h|hr|d|day)s?$/i, one hour when the text does not match
parseReminderOffset(reminderTime) ==
    LET e == DigitsEnd(reminderTime, 1)
        value == StrToNat(reminderTime, 1, 0)
        unit == ToLower(SliceFrom(reminderTime, SkipSpaces(reminderTime, e)))
    IN IF e = 1 THEN 60
       ELSE IF unit \in { "m", "ms", "min", "mins" } THEN value
       ELSE IF unit \in { "h", "hs", "hr", "hrs" } THEN value * 60
       ELSE IF unit \in { "d", "ds", "day", "days" } THEN value * 24 * 60
       ELSE 60

\* parseDueDateTime(card): new Date(year, month - 1, day, hours, minutes) of the card's due
\* date, at its due time or at 09:00, in minutes since 00:00 of Today
parseDueDateTime(dueDate, dueTime) ==
    (DayNumber(StrToNat(dueDate, 1, 0), StrToNat(dueDate, 6, 0), StrToNat(dueDate, 9, 0))
        - DayNumber(Today.y, Today.m, Today.d)) * 24 * 60
    + StrToNat(dueTime, 1, 0) * 60 + StrToNat(dueTime, 4, 0)

\* `${card.id}-${card.dueDate}`
NotificationKey(card) == card.id \o "-" \o card.dueDate

\* shouldRemind(card, now) for a card not yet skipped: now is within the reminder window
InReminderWindow(card, now, reminderTimeSetting) ==
    LET due == parseDueDateTime(card.dueDate,
                                IF card.dueTime # None THEN card.dueTime ELSE "09:00")
    IN /\ now >= due - parseReminderOffset(ReminderTimeOf(card, reminderTimeSetting))
       /\ now <= due

\* KanbanPlugin.shouldRemind(card, now) with notified as notifiedCards
shouldRemind(card, now, notified, reminderTimeSetting) ==
    /\ ~card.completed
    /\ card.dueDate # None
    /\ NotificationKey(card) \notin notified
    /\ InReminderWindow(card, now, reminderTimeSetting)

RECURSIVE RemindFrom(_, _, _, _, _)
\* the loop of checkReminders over the cards of the lanes from card i on: the keys added
\* to notifiedCards and the cards handed to showReminder
RemindFrom(cards, i, now, notified, reminderTimeSetting) ==
    IF i > Len(cards) THEN [notified |-> notified, shown |-> << >>]
    ELSE IF shouldRemind(cards[i], now, notified, reminderTimeSetting)
    THEN [RemindFrom(cards, i + 1, now, notified \cup { NotificationKey(cards[i]) },
                     reminderTimeSetting)
             EXCEPT !.shown = << [line |-> cards[i].rawLine, dueDate |-> cards[i].dueDate] >> \o @]
    ELSE RemindFrom(cards, i + 1, now, notified, reminderTimeSetting)

\* the kanban files of the vault: each has the kanban-plugin key in its frontmatter
ReminderFiles ==
    { \* a board the view has saved: every card carries its identifier
      FM \o "## Todo ^l1\n\n- [ ] pay rent @2025-01-15T09:00 ^c1\n- [x] call @2025-01-15T09:00 ^c2\n",
      \* a board written by hand: no identifiers
      FM \o "## Todo\n\n- [ ] pay rent @2025-01-15T09:00\n- [ ] no date\n",
      \* a card with its own lead time
      FM \o "## Todo ^l1\n\n- [ ] standup @2025-01-15T08:05 [remind::2m] ^c1\n" }

\* 07:58, two minutes before the one-hour window of a card due at 09:00 opens, and 08:58
ReminderStarts == { 7 * 60 + 58, 8 * 60 + 58 }

ReminderInit ==
    /\ ViewIdle
    /\ referenceDate = Today
    /\ DateIdle
    /\ SyncIdle
    /\ LaneIdle
    /\ RunIdle
    /\ remFile \in ReminderFiles
    /\ remNow \in ReminderStarts
    /\ remSettings \in { [enabled |-> e, reminderTime |-> "1h"] : e \in BOOLEAN }
    /\ notifiedCards = { }
    /\ remChecks = 0
    /\ remShown = << >>
    /\ remChanged = FALSE

\* the cards of lanes[i..], lane by lane
RECURSIVE LaneCardsFrom(_, _)
LaneCardsFrom(lanes, i) ==
    IF i > Len(lanes) THEN << >> ELSE lanes[i].cards \o LaneCardsFrom(lanes, i + 1)

\* the cards the check of the board reminds of, and notifiedCards afterwards
CheckOf(b, now, notified, reminderTimeSetting) ==
    RemindFrom(LaneCardsFrom(b.lanes, 1), 1, now, notified, reminderTimeSetting)

\* KanbanPlugin.checkReminders(), called by the one-minute interval timer: the file is
\* read and parsed anew, and every card of a lane goes through shouldRemind
checkReminders ==
    /\ remChecks < MaxChecks
    /\ remChecks' = remChecks + 1
    /\ remNow' = remNow + 1
    /\ IF remSettings.enabled
       THEN LET check == CheckOf(parseKanbanBoard(remFile, Today, remChecks'), remNow,
                                 notifiedCards, remSettings.reminderTime)
            IN /\ notifiedCards' = check.notified
               /\ remShown' = remShown \o check.shown
       ELSE UNCHANGED << notifiedCards, remShown >>
    /\ UNCHANGED << remFile, remSettings, remChanged >>
    /\ UNCHANGED notReminder

\* the toggle "Enable reminders": restartReminders() clears notifiedCards when the toggle
\* is switched on; the check it starts is the next checkReminders
SetEnableReminders(value) ==
    /\ value # remSettings.enabled
    /\ remSettings' = [remSettings EXCEPT !.enabled = value]
    /\ notifiedCards' = IF value THEN { } ELSE notifiedCards
    /\ remChanged' = TRUE
    /\ UNCHANGED << remFile, remNow, remChecks, remShown >>
    /\ UNCHANGED notReminder

\* the field "Default reminder time"
SetReminderTime(value) ==
    /\ remSettings' = [remSettings EXCEPT !.reminderTime = IF value # "" THEN value ELSE "1h"]
    /\ remSettings' # remSettings
    /\ remChanged' = TRUE
    /\ UNCHANGED << remFile, remNow, notifiedCards, remChecks, remShown >>
    /\ UNCHANGED notReminder

ReminderNext ==
    \/ checkReminders
    \/ \E value \in BOOLEAN : SetEnableReminders(value)
    \/ \E value \in { "", "1h", "2h" } : SetReminderTime(value)

ReminderSpec == ReminderInit /\ [][ReminderNext]_vars

(***************************************************************************)
(* Background sync: the runs of syncFromBase and the view's interval timer *)
(***************************************************************************)

\* the calls of performBackgroundSync in one behaviour
MaxSyncs == 3

\* the reloads of the board in one behaviour
MaxReloads == 1

\* a task file as queryBaseTasks returns it; status None is undefined
BaseTask(path, title, status, modified) ==
    [path |-> path, title |-> title, status |-> status, modified |-> modified]

\* the tasks folder, which no step of the model changes
TaskFolders ==
    { << BaseTask("Tasks/a.md", "Report", "done", 1) >>,
      << BaseTask("Tasks/a.md", "Report", None, 1),
         BaseTask("Tasks/b.md", "Call", "done", 1) >> }

\* the view's BaseSyncConfig: Base sync enabled, lane Done mapped to status done
RunConfig(conflictResolution, syncInterval) ==
    [enabled |-> TRUE, laneMapping |-> << [lane |-> "Done", status |-> "done"] >>,
     conflictResolution |-> conflictResolution, syncInterval |-> syncInterval]

\* card.baseTaskPath, undefined on a card that parseCard made
BaseTaskPathOf(card) == IF "baseTaskPath" \in DOMAIN card THEN card.baseTaskPath ELSE None

\* BaseSyncService.createCardFromTask(task), with the identifier generateId() returns and
\* Date.now()
createCardFromTask(task, id, now) ==
    [id |-> id, title |-> task.title, completed |-> FALSE, tags |-> << >>,
     dueDate |-> None, dueTime |-> None, recurrence |-> NoRecurrence, reminderTime |-> None,
     notes |-> None, notePath |-> None, content |-> None, subtasks |-> << >>,
     metadata |-> IF task.status # None THEN << StrEntry("status", task.status) >> ELSE << >>,
     rawLine |-> None, baseTaskPath |-> task.path, baseSyncTime |-> now]

RECURSIVE LinkedIn(_, _, _)
\* the index of the last card of cards[c..] whose baseTaskPath is path, 0 if none
LinkedIn(cards, path, c) ==
    IF c > Len(cards) THEN 0
    ELSE IF LinkedIn(cards, path, c + 1) > 0 THEN LinkedIn(cards, path, c + 1)
    ELSE IF BaseTaskPathOf(cards[c]) = path THEN c ELSE 0

RECURSIVE CardByPath(_, _, _)
\* cardsByPath.get(path): the lane and the place of the card linked to the task, from
\* lane l on, lane 0 if no card is linked to it
CardByPath(lanes, path, l) ==
    IF l > Len(lanes) THEN [lane |-> 0, card |-> 0]
    ELSE IF CardByPath(lanes, path, l + 1).lane > 0 THEN CardByPath(lanes, path, l + 1)
    ELSE IF LinkedIn(lanes[l].cards, path, 1) > 0
    THEN [lane |-> l, card |-> LinkedIn(lanes[l].cards, path, 1)]
    ELSE [lane |-> 0, card |-> 0]

RECURSIVE LaneTitlesFrom(_, _)
LaneTitlesFrom(lanes, l) ==
    IF l > Len(lanes) THEN << >> ELSE << lanes[l].title >> \o LaneTitlesFrom(lanes, l + 1)

\* findLaneForTask(task, board) of the sync service
LaneForTask(b, task, config) ==
    findLaneForTask(task.status, config.laneMapping, LaneTitlesFrom(b.lanes, 1))

\* the lanes with the card at place c of lane l taken out and card put at the end of
\* lane to
MoveTo(lanes, l, c, to, card) ==
    [k \in 1..Len(lanes) |->
        IF k = l /\ k = to THEN [lanes[k] EXCEPT !.cards[c] = card]
        ELSE IF k = l
        THEN [lanes[k] EXCEPT !.cards = SubSeq(@, 1, c - 1) \o SubSeq(@, c + 1, Len(@))]
        ELSE IF k = to THEN [lanes[k] EXCEPT !.cards = Append(@, card)]
        ELSE lanes[k]]

\* updateCardFromTask(card, task, board, onConflict) from the answer to the title conflict
\* on: the title, the lane the task's status asks for, baseSyncTime
UpdatedBoard(b, at, task, config, applyRemote, now) ==
    [b EXCEPT !.lanes =
        MoveTo(@, at.lane, at.card, LaneForTask(b, task, config),
               [b.lanes[at.lane].cards[at.card] EXCEPT
                    !.title = IF applyRemote THEN task.title ELSE @,
                    !.baseSyncTime = now])]

\* the else branch of the loop of syncFromBase: a new card at the end of the task's lane
CreatedBoard(b, task, config, id, now) ==
    [b EXCEPT !.lanes[LaneForTask(b, task, config)].cards =
        Append(@, createCardFromTask(task, id, now))]

\* local !== remote for the title of the linked card
TitleConflict(b, at, task) == b.lanes[at.lane].cards[at.card].title # task.title

\* a run of syncFromBase: where it stands, the task its loop is at, its result so far and
\* the number of the call
RunAt(pc, k, created, updated, seq) ==
    [pc |-> pc, k |-> k, created |-> created, updated |-> updated, seq |-> seq]

RECURSIVE LoopFrom(_, _, _, _, _)
\* one turn of the loop for the task at k, at being what cardsByPath holds for it
LoopTurn(b, tasks, config, now, run, at) ==
    IF at.lane = 0
    THEN LoopFrom(CreatedBoard(b, tasks[run.k], config,
                               "b" \o NatToStr(run.seq) \o "t" \o NatToStr(run.k), now),
                  tasks, config, now,
                  RunAt("loop", run.k + 1, run.created + 1, run.updated, run.seq))
    ELSE IF TitleConflict(b, at, tasks[run.k]) /\ config.conflictResolution = "prompt"
    THEN [board |-> b, run |-> [run EXCEPT !.pc = "prompt"]]
    ELSE LoopFrom(UpdatedBoard(b, at, tasks[run.k], config,
                               /\ TitleConflict(b, at, tasks[run.k])
                               /\ ApplyRemote(config.conflictResolution,
                                              b.lanes[at.lane].cards[at.card].baseSyncTime,
                                              tasks[run.k].modified, "none"),
                               now),
                  tasks, config, now,
                  RunAt("loop", run.k + 1, run.created, run.updated + 1, run.seq))

\* the loop of syncFromBase over tasks from run.k on, up to the conflict prompt it waits
\* for or to its end
LoopFrom(b, tasks, config, now, run) ==
    IF run.k > Len(tasks) THEN [board |-> b, run |-> [run EXCEPT !.pc = "done"]]
    ELSE LoopTurn(b, tasks, config, now, run, CardByPath(b.lanes, tasks[run.k].path, 1))

\* the guard left out
NeverRejected(inProgress) == FALSE

\* the guard of syncFromBase: a call is turned away while a run is in progress
SyncRejected(inProgress) == inProgress

\* KanbanView.startBackgroundSync(): the timer is cleared, and set again when Base sync is
\* enabled with a positive interval
startBackgroundSync(config) == IF config.enabled /\ config.syncInterval > 0 THEN 1 ELSE 0

\* the file of the board the view opens: two lanes, no card
RunDocument == FM \o "## Todo ^l1\n\n## Done ^l2\n"

RunInit ==
    /\ ViewIdle
    /\ referenceDate = Today
    /\ DateIdle
    /\ SyncIdle
    /\ LaneIdle
    /\ ReminderIdle
    /\ runBoard = parseKanbanBoard(RunDocument, Today, 0)
    /\ baseTasks \in TaskFolders
    /\ runConfig \in { RunConfig(resolution, interval) :
                          resolution \in { "prompt", "remote", "local", "last-write" },
                          interval \in { 0, 5 } }
    /\ syncInProgress = FALSE
    /\ runs = << >>
    /\ syncIntervalId = startBackgroundSync(runConfig)
    /\ viewOpen = TRUE
    /\ runClock = 2
    /\ begun = 0
    /\ reloads = 0
    /\ runOp = NoCall

\* KanbanView.performBackgroundSync() up to the first await of syncFromBase, called by the
\* interval timer or by the sync button of the toolbar: the call is turned away while a
\* run is in progress, and begins a run otherwise
performBackgroundSync(via) ==
    /\ begun < MaxSyncs
    /\ IF via = "timer" THEN syncIntervalId # 0 ELSE viewOpen
    /\ runConfig.enabled
    /\ Len(runBoard.lanes) > 0
    /\ begun' = begun + 1
    /\ runClock' = runClock + 1
    /\ IF SyncRejected(syncInProgress)
       THEN /\ runOp' = [inProgress |-> syncInProgress, outcome |-> "rejected",
                         created |-> 0, updated |-> 0]
            /\ UNCHANGED << syncInProgress, runs >>
       ELSE /\ syncInProgress' = TRUE
            /\ runs' = Append(runs, RunAt("query", 1, 0, 0, begun'))
            /\ runOp' = [inProgress |-> syncInProgress, outcome |-> "begun",
                         created |-> 0, updated |-> 0]
    /\ UNCHANGED << runBoard, baseTasks, runConfig, syncIntervalId, viewOpen, reloads >>
    /\ UNCHANGED notRun

\* the runs without run r
Without(r) == SubSeq(runs, 1, r - 1) \o SubSeq(runs, r + 1, Len(runs))

\* the loop of run r goes on from step: it stops at a conflict prompt, or it ends, and
\* then the finally block clears syncInProgress and performBackgroundSync saves and renders
\* the board if a card was created or updated; render() starts the background sync
Advance(r, step) ==
    /\ runBoard' = step.board
    /\ IF step.run.pc = "prompt"
       THEN /\ runs' = [runs EXCEPT ![r] = step.run]
            /\ UNCHANGED << syncInProgress, syncIntervalId, runOp >>
       ELSE /\ runs' = Without(r)
            /\ syncInProgress' = FALSE
            /\ syncIntervalId' = IF step.run.created > 0 \/ step.run.updated > 0
                                 THEN startBackgroundSync(runConfig) ELSE syncIntervalId
            /\ runOp' = [inProgress |-> FALSE, outcome |-> "done",
                         created |-> step.run.created, updated |-> step.run.updated]
    /\ UNCHANGED << baseTasks, runConfig, viewOpen, runClock, begun, reloads >>
    /\ UNCHANGED notRun

\* queryBaseTasks() of run r returns the tasks
QueryDone(r) ==
    /\ r \in 1..Len(runs)
    /\ runs[r].pc = "query"
    /\ Advance(r, LoopFrom(runBoard, baseTasks, runConfig, runClock, runs[r]))

\* queryBaseTasks() of run r throws: the catch block records the error and the finally
\* block clears syncInProgress
QueryFails(r) ==
    /\ r \in 1..Len(runs)
    /\ runs[r].pc = "query"
    /\ runs' = Without(r)
    /\ syncInProgress' = FALSE
    /\ runOp' = [inProgress |-> FALSE, outcome |-> "error", created |-> 0, updated |-> 0]
    /\ UNCHANGED << runBoard, baseTasks, runConfig, syncIntervalId, viewOpen, runClock,
                    begun, reloads >>
    /\ UNCHANGED notRun

\* a button of ConflictResolutionModal: onResolve(choice) resolves the promise run r waits
\* for, and the loop goes on; "skip" leaves the field and goes to the next one
ResolveConflict(r, choice) ==
    /\ r \in 1..Len(runs)
    /\ runs[r].pc = "prompt"
    /\ Advance(r, LoopFrom(UpdatedBoard(runBoard,
                                        CardByPath(runBoard.lanes, baseTasks[runs[r].k].path, 1),
                                        baseTasks[runs[r].k], runConfig, choice = "remote",
                                        runClock),
                           baseTasks, runConfig, runClock,
                           RunAt("loop", runs[r].k + 1, runs[r].created, runs[r].updated + 1,
                                 runs[r].seq)))

\* ConflictResolutionModal closed by Escape or its close button: onClose() empties the
\* dialog and calls nothing, so the promise run r waits for is never resolved
CloseConflictDialog(r) ==
    /\ r \in 1..Len(runs)
    /\ runs[r].pc = "prompt"
    /\ runs' = [runs EXCEPT ![r].pc = "closed"]
    /\ UNCHANGED << runBoard, baseTasks, runConfig, syncInProgress, syncIntervalId, viewOpen,
                    runClock, begun, reloads, runOp >>
    /\ UNCHANGED notRun

\* the place of the first card of the board that is linked to a task
FirstLinked(lanes) ==
    CHOOSE at \in { [lane |-> l, card |-> c] : l \in 1..Len(lanes), c \in 1..MaxSyncs * 2 } :
        /\ at.card <= Len(lanes[at.lane].cards)
        /\ BaseTaskPathOf(lanes[at.lane].cards[at.card]) # None

HasLinked(lanes) ==
    \E l \in 1..Len(lanes) : \E c \in 1..Len(lanes[l].cards) :
        BaseTaskPathOf(lanes[l].cards[c]) # None

\* the user gives a linked card another title while no dialog is open
RenameLinkedCard(newTitle) ==
    /\ viewOpen
    /\ \A r \in 1..Len(runs) : runs[r].pc # "prompt"
    /\ HasLinked(runBoard.lanes)
    /\ LET at == FirstLinked(runBoard.lanes)
       IN /\ runBoard.lanes[at.lane].cards[at.card].title # newTitle
          /\ runBoard' = [runBoard EXCEPT !.lanes[at.lane].cards[at.card].title = newTitle]
    /\ UNCHANGED << baseTasks, runConfig, syncInProgress, runs, syncIntervalId, viewOpen,
                    runClock, begun, reloads, runOp >>
    /\ UNCHANGED notRun

\* the board is saved and read again while no run is in progress: getViewData(), then
\* setViewData(data, true), which parses the text and renders the board
ReloadBoard ==
    /\ viewOpen
    /\ runs = << >>
    /\ reloads < MaxReloads
    /\ reloads' = reloads + 1
    /\ runBoard' = parseKanbanBoard(serializeKanbanBoard(runBoard), Today, reloads')
    /\ syncIntervalId' = startBackgroundSync(runConfig)
    /\ UNCHANGED << baseTasks, runConfig, syncInProgress, runs, viewOpen, runClock, begun,
                    runOp >>
    /\ UNCHANGED notRun

\* KanbanView.onClose(): stopBackgroundSync() clears the interval timer
onClose ==
    /\ viewOpen
    /\ viewOpen' = FALSE
    /\ syncIntervalId' = 0
    /\ UNCHANGED << runBoard, baseTasks, runConfig, syncInProgress, runs, runClock, begun,
                    reloads, runOp >>
    /\ UNCHANGED notRun

\* a run of syncFromBase goes on after an await
RunGoesOn == \E r \in 1..MaxSyncs : QueryDone(r) \/ QueryFails(r)

\* the user leaves the conflict dialog, by a button or by closing it
DialogLeft ==
    \E r \in 1..MaxSyncs :
        \/ \E choice \in { "local", "remote", "skip" } : ResolveConflict(r, choice)
        \/ CloseConflictDialog(r)

RunNext ==
    \/ \E via \in { "timer", "button" } : performBackgroundSync(via)
    \/ \E r \in 1..MaxSyncs : QueryDone(r)
    \/ \E r \in 1..MaxSyncs : QueryFails(r)
    \/ \E r \in 1..MaxSyncs, choice \in { "local", "remote", "skip" } : ResolveConflict(r, choice)
    \/ \E r \in 1..MaxSyncs : CloseConflictDialog(r)
    \/ RenameLinkedCard("Draft")
    \/ ReloadBoard
    \/ onClose

RunSpec == RunInit /\ [][RunNext]_vars

\* the boards of RunInit whose tasks folder holds one task
RunLiveInit == RunInit /\ Len(baseTasks) = 1

\* RunSpec from the folders of one task, with fairness: a run of syncFromBase goes on when
\* what it waits for arrives, and the user leaves a conflict dialog that is open, by one
\* of its buttons or by closing it
RunLiveSpec ==
    /\ RunLiveInit
    /\ [][RunNext]_vars
    /\ WF_vars(RunGoesOn)
    /\ WF_vars(DialogLeft)


\* ---------------------------------------------------------------------------
\* Properties of the round trip
\* ---------------------------------------------------------------------------

\* every card of a board, lane by lane, then the archive
AllCards(b) == LaneCardsFrom(b.lanes, 1) \o b.archive

\* the board on screen is the parse of opened.text, untouched
FreshlyOpened == lastOp = "open" /\ opened.text # None /\ Trim(opened.text) # ""

\* doc is serialize(parse(opened.text)), with no mutation in between
CleanSave == lastOp = "save" /\ docFrom = "clean" /\ Trim(opened.text) # ""

\* the board on screen is parse(serialize(prev.board)), prev.board an untouched parse
CleanReopen == lastOp = "open" /\ prev.how = "clean"

\* C1: for every document d, serializing the board obtained by parsing d, with
\* no mutation between parse and serialize, produces text equal to d exactly.
C1_RoundTripIsIdentity == CleanSave => doc = opened.text

\* the identifier a card line or a lane header carried in the document, if any
CarriedId(raw) == extractId(Trim(raw)).id

SubtaskFace(st) == [text |-> st.text, completed |-> st.completed]

RECURSIVE SubtaskFaces(_, _)
SubtaskFaces(subtasks, i) ==
    IF i > Len(subtasks) THEN << >>
    ELSE << SubtaskFace(subtasks[i]) >> \o SubtaskFaces(subtasks, i + 1)

\* the fields of a card that make up the structured model, identifier aside
CardFace(c) ==
    [title |-> c.title, completed |-> c.completed, tags |-> c.tags,
     dueDate |-> c.dueDate, dueTime |-> c.dueTime, recurrence |-> c.recurrence,
     reminderTime |-> c.reminderTime, notes |-> c.notes, notePath |-> c.notePath,
     content |-> c.content, subtasks |-> SubtaskFaces(c.subtasks, 1),
     metadata |-> c.metadata]

\* equal cards, ignoring an identifier the first parse had to generate
SameCard(c1, c2) ==
    /\ CardFace(c1) = CardFace(c2)
    /\ CarriedId(c1.rawLine) # None => c2.id = c1.id

SameCards(q1, q2) ==
    /\ Len(q1) = Len(q2)
    /\ \A i \in 1..Len(q1) : SameCard(q1[i], q2[i])

SameLane(l1, l2) ==
    /\ l1.title = l2.title
    /\ CarriedId(l1.rawHeader) # None => l2.id = l1.id
    /\ SameCards(l1.cards, l2.cards)

SameModel(b1, b2) ==
    /\ Len(b1.lanes) = Len(b2.lanes)
    /\ \A i \in 1..Len(b1.lanes) : SameLane(b1.lanes[i], b2.lanes[i])
    /\ SameCards(b1.archive, b2.archive)
    /\ b1.settings = b2.settings

\* C2: for every document d, parse(serialize(parse(d))) equals parse(d) as a
\* structured model (lanes, archive, settings and the fields of every card),
\* ignoring only identifiers that were freshly generated because d carried none.
C2_ReparseIsSameModel == CleanReopen => SameModel(prev.board, board)

\* the board on screen is the parse of what a title edit wrote
EditedReopen == lastOp = "open" /\ prev.how = "edited" /\ edit # NoEdit

\* C3: a card's identifier as parsed from the document is preserved across any
\* edit of that card's title followed by serialize and parse: the re-parsed
\* card carries the same identifier as before the edit, for every new title.
C3_EditKeepsIdentifier ==
    EditedReopen =>
        /\ edit.lane <= Len(board.lanes)
        /\ edit.card <= Len(board.lanes[edit.lane].cards)
        /\ board.lanes[edit.lane].cards[edit.card].id = edit.id

\* the block of a card stands in the text right under the card's own line
BlockEmitted(text, card) == Includes(text, CardLine(card) \o NL \o card.content)

\* C4: for every parsed card with a non-empty content block, serialize emits
\* all lines of that block verbatim directly after the card line.
C4_ContentBlockVerbatim ==
    CleanSave =>
        \A i \in 1..Len(AllCards(board)) :
            AllCards(board)[i].content # None => BlockEmitted(doc, AllCards(board)[i])

\* a line the card parser recognises: a card or subtask (checkbox) or a note
IsBoardLine(line) == CheckboxMatch(line).ok \/ IsNoteLine(line)

RECURSIVE LastBoardLine(_, _, _)
LastBoardLine(lines, i, last) ==
    IF i > Len(lines) THEN last
    ELSE LastBoardLine(lines, i + 1, IF IsBoardLine(lines[i]) THEN i ELSE last)

TextAfter(lines, last) ==
    IF last >= Len(lines) THEN "" ELSE Trim(Join(SubSeq(lines, last + 1, Len(lines)), NL))

\* the final section of a body whose configuration block follows its last header
FinalSectionOf(body, laneMatches, settingsStart) ==
    IF Len(laneMatches) > 0 /\ settingsStart > laneMatches[Len(laneMatches)].index
    THEN SplitLines(SectionContent(body, laneMatches, Len(laneMatches), settingsStart))
    ELSE << >>

\* the text between the last card, subtask or note line of the final section
\* and the configuration block
TextBeforeSettings(text) ==
    LET body == extractFrontmatter(text).body
        lines == FinalSectionOf(body, LaneMatches(body, 1), SettingsSpan(body).settingsStart)
    IN TextAfter(lines, LastBoardLine(lines, 2, 1))

\* t stands in the text after every card and before the configuration block
BetweenCardsAndSettings(text, t, cards) ==
    /\ IndexOf(text, t) > 0
    /\ IndexOf(text, t) < IndexOf(text, SETTINGS_OPEN)
    /\ \A i \in 1..Len(cards) : IndexOf(text, "^" \o cards[i].id) < IndexOf(text, t)

\* C5: text between the last card, subtask or note line of the final lane
\* section and the configuration block is captured as pre-settings content and
\* re-emitted in its original position, between the final section's cards and
\* the configuration block.
C5_PreSettingsTextKept ==
    (TextBeforeSettings(opened.text) # "") =>
        /\ FreshlyOpened => board.preSettingsContent = TextBeforeSettings(opened.text)
        /\ CleanSave =>
              BetweenCardsAndSettings(doc, TextBeforeSettings(opened.text), AllCards(board))

\* the header-content the segmenter owes a body without lane section
HeaderContentOwed(body, settingsStart) ==
    IF settingsStart >= 0 THEN Trim(JsSlice(body, 0, settingsStart)) ELSE Trim(body)

NoLaneHeader(body, owed) ==
    /\ board.headerContent = owed
    /\ ~Includes(board.headerContent, SETTINGS_OPEN)

\* C6: parsing a document with no lane section yields as header-content the
\* entire body after the header block or, when the body contains a
\* configuration block, only the text up to that block: the configuration
\* block is never part of header-content.
C6_HeaderContentStopsAtSettings ==
    (FreshlyOpened /\ LaneMatches(extractFrontmatter(opened.text).body, 1) = << >>) =>
        NoLaneHeader(extractFrontmatter(opened.text).body,
                     HeaderContentOwed(extractFrontmatter(opened.text).body,
                         SettingsSpan(extractFrontmatter(opened.text).body).settingsStart))

\* the header block has the marker among its keys
HasMarkerKey(frontmatter) ==
    \E i \in 1..Len(SplitLines(frontmatter)) :
        StartsWith(SplitLines(frontmatter)[i], FRONTMATTER_KEY \o ":")

\* C7: after parse followed by serialize of any document, the header block of
\* the output contains the marker key kanban-plugin as one of its keys; when
\* the input header block has no such key, it is injected as the first line
\* after the opening ---.
C7_MarkerKeyPresent ==
    CleanSave =>
        /\ HasMarkerKey(extractFrontmatter(doc).frontmatter)
        /\ ~HasMarkerKey(extractFrontmatter(opened.text).frontmatter) =>
               StartsWith(doc, "---\n" \o FRONTMATTER_KEY \o ": basic\n")

\* the text of a card line after its checkbox
CardText(card) == Trim(CheckboxMatch(card.rawLine).rest)

\* the line with one bracketed tag taken out
WithoutTag(line, m) == SliceTo(line, m.at) \o SliceFrom(line, m.end)

\* the rule [recur::P] stands for
RuleOf(p) == [parseRecurrence(p).pattern EXCEPT !.rawPattern = p]

RecurTagRead(card, m) ==
    (/\ m # NoMatch
     /\ parseRecurrence(WithoutTag(CardText(card), m)).matched = None
     /\ parseRecurrence(BracketValue(CardText(card), "[recur::", m)).matched # None)
    => card.recurrence = RuleOf(BracketValue(CardText(card), "[recur::", m))

\* C8: parsing a card line that contains no bare recurrence phrase but contains
\* [recur::P] yields a card whose recurrence rule is the interpretation of P,
\* with P retained verbatim as the rule's original phrase.
C8_RecurTagInterpreted ==
    FreshlyOpened =>
        \A i \in 1..Len(AllCards(board)) :
            RecurTagRead(AllCards(board)[i],
                         BracketAt(CardText(AllCards(board)[i]), "[recur::", 1))

RemindTagRead(card, m) ==
    m # NoMatch =>
        /\ card.reminderTime = BracketValue(CardText(card), "[remind::", m)
        /\ ReminderTimeOf(card, "1h") = BracketValue(CardText(card), "[remind::", m)

\* C9: parsing a card line that contains [remind::D] sets the card's reminder
\* lead-time field to the string D, which is the lead time the reminder check
\* uses for that card instead of the default.
C9_RemindTagIsLeadTime ==
    FreshlyOpened =>
        \A i \in 1..Len(AllCards(board)) :
            RemindTagRead(AllCards(board)[i],
                          BracketAt(CardText(AllCards(board)[i]), "[remind::", 1))

NaturalStageSkipped(card, phrase) ==
    (phrase # None /\ ~Includes(card.rawLine, "@")) =>
        card.dueDate = None /\ Includes(card.title, phrase)

\* C10: when natural-language date parsing is disabled, the natural-language
\* stage is skipped when a board is parsed: a card line without an @YYYY-MM-DD
\* date that contains a phrase such as "tomorrow" or "next friday" gets no due
\* date and the phrase stays in the title.
C10_DisabledNaturalDatesSkipped ==
    (FreshlyOpened /\ ~opened.parseNaturalDates) =>
        \A i \in 1..Len(AllCards(board)) :
            NaturalStageSkipped(AllCards(board)[i],
                                parseNaturalDate(CardText(AllCards(board)[i]), Today).matched)

\* ---------------------------------------------------------------------------
\* Properties of the date functions
\* ---------------------------------------------------------------------------

\* date is n days after the reference date and falls on weekday target (sunday = 0)
WeekdayAfter(date, n, target) ==
    /\ date = formatISODate(AddDays(referenceDate, n))
    /\ getDay(AddDays(referenceDate, n)) = target

\* C11: resolving "this <weekday>" against a reference date yields the nearest
\* date on or after the reference date that falls on that weekday; when the
\* reference date itself falls on that weekday, the result is the reference date.
C11_ThisWeekdayOnOrAfter ==
    \A k \in 1..7 :
        naturalText = "this " \o WeekDays[k] =>
            \E n \in 0..6 : WeekdayAfter(naturalDate.date, n, k - 1)

\* C12: resolving "next <weekday>" yields a date on that weekday strictly after
\* the reference date, never the reference date itself; with reference date
\* Wednesday 2025-01-15, "next monday" yields 2025-01-20.
C12_NextWeekdayStrictlyAfter ==
    /\ \A k \in 1..7 :
           naturalText = "next " \o WeekDays[k] =>
               \E n \in 1..13 : WeekdayAfter(naturalDate.date, n, k - 1)
    /\ (naturalText = "next monday" /\ referenceDate = Today) =>
           naturalDate.date = "2025-01-20"

\* "next wednesday" resolved on a wednesday
C12_Witness ==
    /\ naturalText = "next wednesday"
    /\ getDay(referenceDate) = 3
    /\ naturalDate.date = formatISODate(AddDays(referenceDate, 7))

\* the first day of the month after the date's month
FirstOfNextMonth(date) ==
    IF date.m = 12 THEN [y |-> date.y + 1, m |-> 1, d |-> 1]
    ELSE [y |-> date.y, m |-> date.m + 1, d |-> 1]

\* C13: resolving "next month" yields the first day of the calendar month
\* immediately following the reference date's month, for every reference date.
C13_NextMonthIsFirstOfNext ==
    naturalText = "next month" =>
        naturalDate.date = formatISODate(FirstOfNextMonth(referenceDate))

\* the month n months after the date's month, as [y, m]
MonthAfter(date, n) ==
    [y |-> date.y + ((date.m - 1 + n) \div 12), m |-> ((date.m - 1 + n) % 12) + 1]

InMonth(date, ym) == date.y = ym.y /\ date.m = ym.m

Clamped(dayOfMonth, ym) ==
    IF dayOfMonth > DaysInMonthOf(ym.y, ym.m) THEN DaysInMonthOf(ym.y, ym.m) ELSE dayOfMonth

MonthlyAsOwed(rule, date, ym) ==
    /\ InMonth(date, ym)
    /\ rule.dayOfMonth # 0 => date.d = Clamped(rule.dayOfMonth, ym)

\* C14: for a monthly rule, the next occurrence lies in the calendar month
\* exactly interval months after the from-date's month; when a day-of-month is
\* set, its day is that day-of-month clamped to the last valid day of that month.
C14_MonthlyAdvancesInterval ==
    recurrenceRule.frequency = "monthly" =>
        MonthlyAsOwed(recurrenceRule, occurrence,
                      MonthAfter(referenceDate,
                                 IF recurrenceRule.interval = 0 THEN 1
                                 ELSE recurrenceRule.interval))

\* day n after the reference date is the first one whose weekday is in the set
EarliestInSet(days, n) ==
    /\ getDay(AddDays(referenceDate, n)) \in days
    /\ \A m \in 1..(n - 1) : getDay(AddDays(referenceDate, m)) \notin days

\* C15: for a weekly rule with a non-empty weekday set, the next occurrence is
\* the earliest date strictly after the from-date whose weekday is in the set,
\* wrapping into the following week; from a Friday with set {monday, friday} it
\* is the following Monday, not that Friday.
C15_WeeklyNextInSet ==
    (recurrenceRule.frequency = "weekly" /\ Len(recurrenceRule.daysOfWeek) > 0) =>
        /\ \E n \in 1..7 :
               /\ occurrence = AddDays(referenceDate, n)
               /\ EarliestInSet(TargetDays(recurrenceRule.daysOfWeek), n)
        /\ (getDay(referenceDate) = 5
            /\ TargetDays(recurrenceRule.daysOfWeek) = {1, 5}) =>
               occurrence = AddDays(referenceDate, 3)

\* from a friday with the set {monday, friday}: the following monday
C15_Witness ==
    /\ recurrenceRule = Rule("weekly", 0, << "monday", "friday" >>, 0)
    /\ getDay(referenceDate) = 5
    /\ getDay(occurrence) = 1
    /\ occurrence = AddDays(referenceDate, 3)

(***************************************************************************)
(* Properties of the content block                                         *)
(***************************************************************************)
\* lines i .. i+4 are: a top-level card line, an indented subtask line, a blank line, a
\* second indented subtask line, a top-level checkbox line
SubtasksAroundBlank(lines, i) ==
    /\ i + 4 <= Len(lines)
    /\ CheckboxMatch(lines[i]).ok /\ CheckboxMatch(lines[i]).indent = 0
    /\ CheckboxMatch(lines[i + 1]).ok /\ CheckboxMatch(lines[i + 1]).indent > 0
    /\ lines[i + 2] = ""
    /\ CheckboxMatch(lines[i + 3]).ok /\ CheckboxMatch(lines[i + 3]).indent > 0
    /\ CheckboxMatch(lines[i + 4]).ok /\ CheckboxMatch(lines[i + 4]).indent = 0

\* the text of a subtask line after its checkbox
SubtaskTextOf(line) == Trim(CheckboxMatch(line).rest)

\* the card at position c of lane l owns lines i+1 .. i+3 and the card after it owns none
OwnsBothSubtasks(lines, i, l, c) ==
    /\ board.lanes[l].cards[c].rawLine = lines[i]
    /\ board.lanes[l].cards[c].content = lines[i + 1] \o NL \o NL \o lines[i + 3]
    /\ Len(board.lanes[l].cards[c].subtasks) = 2
    /\ board.lanes[l].cards[c].subtasks[1].text = SubtaskTextOf(lines[i + 1])
    /\ board.lanes[l].cards[c].subtasks[2].text = SubtaskTextOf(lines[i + 3])
    /\ c + 1 <= Len(board.lanes[l].cards)
    /\ board.lanes[l].cards[c + 1].rawLine = lines[i + 4]
    /\ \A k \in 1..Len(board.lanes[l].cards[c + 1].subtasks) :
          board.lanes[l].cards[c + 1].subtasks[k].text
              \notin { SubtaskTextOf(lines[i + 1]), SubtaskTextOf(lines[i + 3]) }
    /\ \A ln \in { lines[i + 1], lines[i + 3] } :
          ln \notin { SplitLines(board.lanes[l].cards[c + 1].content)[k] :
                        k \in 1..Len(SplitLines(board.lanes[l].cards[c + 1].content)) }

\* the card line at i was parsed as a card of the board
ParsedAsCard(line) ==
    \E l \in 1..Len(board.lanes) : \E c \in 1..Len(board.lanes[l].cards) :
        board.lanes[l].cards[c].rawLine = line

\* C16: after a parse, a card line followed by an indented subtask line, a blank line, a
\* second indented subtask line and a new top-level checkbox line has both subtask lines
\* and the blank line in its content block, and the card of the checkbox line that follows
\* has none of them.
C16_BlankLineStaysInBlock ==
    lastOp = "open" =>
        \A i \in 1..Len(SplitLines(opened.text)) :
            (SubtasksAroundBlank(SplitLines(opened.text), i)
             /\ ParsedAsCard(SplitLines(opened.text)[i])) =>
                \E l \in 1..Len(board.lanes) : \E c \in 1..Len(board.lanes[l].cards) :
                    OwnsBothSubtasks(SplitLines(opened.text), i, l, c)

C16_Witness ==
    /\ lastOp = "open"
    /\ \E i \in 1..Len(SplitLines(opened.text)) :
          /\ SubtasksAroundBlank(SplitLines(opened.text), i)
          /\ \E l \in 1..Len(board.lanes) : \E c \in 1..Len(board.lanes[l].cards) :
                /\ OwnsBothSubtasks(SplitLines(opened.text), i, l, c)
                /\ board.lanes[l].cards[c + 1].subtasks # << >>

(***************************************************************************)
(* Properties of the settings block                                        *)
(***************************************************************************)
\* the text after the frontmatter
BodyOf(text) == extractFrontmatter(text).body

\* the text holds a settings block whose payload JSON.parse rejects
InvalidSettingsJson(text) ==
    /\ SettingsPayload(BodyOf(text), 1).found
    /\ ~JsonParse(SettingsPayload(BodyOf(text), 1).text).ok

\* the lane header is a lane of the board, or the archive's
HeaderParsed(headerText) ==
    \/ IsArchiveHeader(headerText)
    \/ \E l \in 1..Len(board.lanes) : board.lanes[l].rawHeader = headerText

\* the top-level card lines of the section are the cards of its lane, in order
SectionParsed(section) ==
    LET lines == SplitLines(section)
        top == SelectSeq(lines, LAMBDA ln : CheckboxMatch(ln).ok /\ CheckboxMatch(ln).indent = 0)
    IN \/ /\ IsArchiveHeader(lines[1])
          /\ \A k \in 1..Len(top) : \E a \in 1..Len(board.archive) : board.archive[a].rawLine = top[k]
       \/ \E l \in 1..Len(board.lanes) :
             /\ board.lanes[l].rawHeader = lines[1]
             /\ Len(board.lanes[l].cards) = Len(top)
             /\ \A k \in 1..Len(top) : board.lanes[l].cards[k].rawLine = top[k]

\* the lane sections of the text: from each lane header to the next one, the settings
\* block or the end of the text
LaneSectionsOf(body) ==
    LET lm == LaneMatches(body, 1)
    IN { JsSlice(body, lm[i].index,
                 IF i < Len(lm)
                 THEN (IF SettingsSpan(body).settingsStart > lm[i].index
                          /\ SettingsSpan(body).settingsStart < lm[i + 1].index
                       THEN SettingsSpan(body).settingsStart ELSE lm[i + 1].index)
                 ELSE IF SettingsSpan(body).settingsStart > lm[i].index
                 THEN SettingsSpan(body).settingsStart
                 ELSE Len(body)) : i \in 1..Len(lm) }

\* C17: after a parse of a text whose settings block holds invalid JSON, the board's
\* settings are the empty record and every lane section of the text, before and after
\* the block, is a lane of the board with its cards.
C17_InvalidSettingsJsonIgnored ==
    (lastOp = "open" /\ InvalidSettingsJson(opened.text)) =>
        /\ board.settings = << >>
        /\ \A i \in 1..Len(LaneMatches(BodyOf(opened.text), 1)) :
              HeaderParsed(LaneMatches(BodyOf(opened.text), 1)[i].match)
        /\ \A section \in LaneSectionsOf(BodyOf(opened.text)) : SectionParsed(section)

\* a lane with a card before the block and a lane with a card after it
C17_Witness ==
    /\ lastOp = "open"
    /\ InvalidSettingsJson(opened.text)
    /\ Len(board.lanes) = 2
    /\ Len(LaneMatches(BodyOf(opened.text), 1)) = 2
    /\ LaneMatches(BodyOf(opened.text), 1)[1].index < SettingsSpan(BodyOf(opened.text)).settingsStart
    /\ SettingsSpan(BodyOf(opened.text)).settingsEnd <= LaneMatches(BodyOf(opened.text), 1)[2].index
    /\ board.lanes[1].cards # << >>
    /\ board.lanes[2].cards # << >>
    /\ board.settings = << >>

(***************************************************************************)
(* Properties of the sync                                                  *)
(***************************************************************************)
\* the Base sync configuration in force
BaseConfigInForce == getBaseSyncConfig(syncSettings.board, syncSettings.base)

\* the last handler moved the card, linked to a task, into another lane
LinkedCardMoved ==
    /\ syncOp.op \in { "drag", "menu" }
    /\ syncOp.from # syncOp.to
    /\ syncOp.linked

\* C18: with Base sync enabled, after every move of a linked card into a different lane
\* that has a status mapping, by drag-and-drop or by the card menu, the status field of
\* the task file holds the status mapped to the destination lane.
C18_MoveUpdatesBaseStatus ==
    (/\ LinkedCardMoved
     /\ BaseConfigInForce.enabled
     /\ MappedStatus(BaseConfigInForce.laneMapping, SyncLanes[syncOp.to]) # None) =>
        FmGet(taskFile.fm, BaseConfigInForce.statusField)
            = MappedStatus(BaseConfigInForce.laneMapping, SyncLanes[syncOp.to])

\* some status line of the file, its key read without regard to case, holds the value
HasStatus(fm, statusField, value) ==
    \E i \in 1..Len(fm) : ToLower(fm[i].key) = ToLower(statusField) /\ fm[i].value = value

\* C19: with the GPT Task Manager integration enabled and status update on move on,
\* after every move of a linked card into a different lane, by drag-and-drop or by the
\* card menu, the Status field of the task file holds the status of the destination lane.
C19_MoveUpdatesGptStatus ==
    (/\ LinkedCardMoved
     /\ syncSettings.gpt.enabled
     /\ syncSettings.gpt.updateStatusOnMove) =>
        HasStatus(taskFile.fm, syncSettings.gpt.statusField,
                  laneToStatus(SyncLanes[syncOp.to], syncSettings.gpt))

\* C20: under 'last-write', a sync that finds the card's and the task's title different
\* leaves the card with the task's title exactly when the task file was modified after
\* the card's last local modification.
C20_LastWriteKeepsNewerSide ==
    (/\ syncOp.op = "sync"
     /\ BaseConfigInForce.conflictResolution = "last-write"
     /\ syncOp.local # syncOp.remote) =>
        (syncCard.title = syncOp.remote <=> syncOp.taskModified > syncOp.cardEdited)

(***************************************************************************)
(* Properties of repeated load/save cycles                                 *)
(***************************************************************************)
\* doc is serialize(parse(s)) for a text s that is itself serialize(parse(d)), with no
\* mutation in either cycle
SecondCleanSave == CleanSave /\ prev.how = "clean"

\* C26: load/save cycles without edits reach a fixed point after the first cycle: for
\* s = serialize(parse(d)), serialize(parse(s)) equals s.
C26_SaveIsFixedPoint == SecondCleanSave => doc = opened.text

(***************************************************************************)
(* The "Set due date" action                                               *)
(***************************************************************************)

\* the board was reopened from the text saved by a "Set due date" that gave a date
DueDateReopen ==
    /\ lastOp = "open"
    /\ prev.how = "dated"
    /\ IsoDateInput(edit.newText)

\* C23: after "Set due date" gave a card the date D and the board was serialized and
\* parsed again, the card at that place has the due date D, whatever its title is.
C23_DueDateSurvivesReload ==
    DueDateReopen =>
        /\ edit.lane \in 1..Len(board.lanes)
        /\ edit.card \in 1..Len(board.lanes[edit.lane].cards)
        /\ board.lanes[edit.lane].cards[edit.card].dueDate = edit.newText

(***************************************************************************)
(* Checkbox lines and the cards of the board                               *)
(***************************************************************************)

RECURSIVE CheckboxLinesFrom(_, _, _)
\* how many of lines[i..] are checkbox lines under a section header; under tells whether
\* a line matching /^## .+$/ came before line i
CheckboxLinesFrom(lines, i, under) ==
    IF i > Len(lines) THEN 0
    ELSE IF StartsWith(lines[i], "## ") /\ Len(lines[i]) >= 4
    THEN CheckboxLinesFrom(lines, i + 1, TRUE)
    ELSE (IF under /\ CheckboxMatch(lines[i]).ok THEN 1 ELSE 0)
         + CheckboxLinesFrom(lines, i + 1, under)

RECURSIVE SubtasksFrom(_, _)
\* the number of subtasks of cards[i..]
SubtasksFrom(cards, i) ==
    IF i > Len(cards) THEN 0 ELSE Len(cards[i].subtasks) + SubtasksFrom(cards, i + 1)

\* the cards of the lanes and of the archive, and their subtasks
RepresentedLines(b) == Len(AllCards(b)) + SubtasksFrom(AllCards(b), 1)

\* C27: every checkbox line under a section header of the document is in the parsed board
\* exactly once, as a card of a lane, a card of the archive or a subtask of a card.
C27_EveryCheckboxLineRepresented ==
    FreshlyOpened =>
        RepresentedLines(board) = CheckboxLinesFrom(SplitLines(opened.text), 1, FALSE)

(***************************************************************************)
(* Card identifiers                                                        *)
(***************************************************************************)

\* no two cards of a board, lanes and archive together, carry the same identifier
DistinctIds(cards) ==
    \A i, j \in 1..Len(cards) : cards[i].id = cards[j].id => i = j

\* C30: after parsing any document no two cards of the board carry the same identifier.
C30_CardIdsUnique == FreshlyOpened => DistinctIds(AllCards(board))

(***************************************************************************)
(* WIP limits                                                              *)
(***************************************************************************)

\* the last add-card action found the lane holding more cards than its WIP limit, with
\* "Block when exceeded" in force for the lane
AddedWhileBlocked ==
    /\ wipOp.via \in { "composer", "button", "menu", "template" }
    /\ wipOp.blockExceeded
    /\ wipOp.limit > 0
    /\ wipOp.count > wipOp.limit

\* C21: no add-card action of the board (composer, add-card button, lane menu "Add card",
\* lane menu "Add card from template") adds a card to a lane that holds more cards than its
\* WIP limit while "Block when exceeded" is enabled for it.
C21_NoAddWhileBlocked == ~AddedWhileBlocked

(***************************************************************************)
(* Reminders are shown once                                                *)
(***************************************************************************)

\* showReminder was called twice for the same card line with the same due date
RemindedTwice ==
    \E i, j \in 1..Len(remShown) : i # j /\ remShown[i] = remShown[j]

\* C28: with reminders enabled and the settings unchanged, a card with a given due date
\* triggers its reminder at most once over all the per-minute checks.
C28_RemindedAtMostOnce == ~remChanged => ~RemindedTwice

(***************************************************************************)
(* Background sync                                                         *)
(***************************************************************************)

RECURSIVE TitledFrom(_, _, _)
\* how many of cards[i..] have the title
TitledFrom(cards, title, i) ==
    IF i > Len(cards) THEN 0
    ELSE (IF cards[i].title = title THEN 1 ELSE 0) + TitledFrom(cards, title, i + 1)

\* the cards of the board that stand for the task: no card of the model has the title of
\* a task unless a sync made it from the task or wrote the task's title to it
CardsOfTask(b, task) == TitledFrom(AllCards(b), task.title, 1)

\* C22: after a sync, a save, a reload and another sync against the same tasks, every task
\* is represented by at most one card of the board.
C22_OneCardPerTask ==
    \A k \in 1..Len(baseTasks) : CardsOfTask(runBoard, baseTasks[k]) <= 1

\* C24: every run of syncFromBase that sets syncInProgress clears it again, whatever the
\* user does with a conflict prompt.
C24_InProgressCleared == syncInProgress ~> ~syncInProgress

\* C25: at most one run of syncFromBase is active on the service, and a call made while a
\* run is in progress is turned away with "Sync already in progress" and changes neither
\* the board nor the run that is active.
C25_OneRunAtATime ==
    /\ [](Len(runs) <= 1 /\ (runOp.inProgress => runOp.outcome = "rejected"))
    /\ [][(begun' # begun /\ syncInProgress)
            => (runOp'.outcome = "rejected" /\ runBoard' = runBoard /\ runs' = runs)]_vars

\* a call was turned away while another run was waiting
C25_Witness ==
    /\ runOp.outcome = "rejected"
    /\ Len(runs) = 1
    /\ syncInProgress

\* C29: after the view has been closed no background-sync interval timer of the view is
\* scheduled.
C29_NoTimerAfterClose == ~viewOpen => syncIntervalId = 0

====
